---- MODULE Spec2Model ----
(***************************************************************************)
(* Furnace controller: the simulation tick loop (SimulatorService.Run),    *)
(* the control operations (FurnaceService.Start / Stop / SetMode) and the  *)
(* single-row state store and event log they share.                        *)
(*                                                                         *)
(* Units.  The Go code works on float64 degrees and float64 seconds.  The  *)
(* model uses exact integers on a grid: temperatures are tenths of a       *)
(* degree Celsius, times are fifths of a second (Second time units make    *)
(* one second).  Rates are tenths of a degree per second.  All products    *)
(* rate * elapsed / Second used below are exact on this grid; float        *)
(* rounding of the Go arithmetic is not modelled.                          *)
(***************************************************************************)
EXTENDS Integers, Sequences, FiniteSets, TLC

VARIABLES
    table,      \* furnace_state table: <<>> (no row) or <<row>> (the single row)
    events,     \* furnace_events table: the appended events, in append order
    clock,      \* wall clock, in time units
    tickPc,     \* simulator loop position: "wait", "append", "save"
    tickSt,     \* simulator's local st
    tickEv,     \* events the current tick still has to Append before its Save
    tickChanged,\* simulator's local changed
    opPc,       \* control call position: "idle", "save", "append"
    opKind,     \* control call in flight / last returned: "none","Start","Stop","SetMode"
    opSt,       \* control call's local st
    opRes,      \* what the last control call returned: "none" (no call yet), "pending",
                \* "ok" (nil), "errInvalid" (validation error, lines 109-125),
                \* "errNotRunning" (lines 131-138) or "errStore" (a store call's error)
    opBefore,   \* history: the table as the control call in flight loaded it (<<>>
                \* when no call is in flight)
    faults,     \* number of store calls that have failed so far
    hotTicks,   \* history: number of ticks on a running device whose temperature
                \* after the step was above MaxSafeC
    coolStored, \* history: number of Saves of the simulator that changed the
                \* stored mode from HEAT to COOL
    getRes,     \* what the last GetState call returned: [status, st] with status
                \* "none" (no call yet), "ok" (nil error) or "err"
    wsPc,       \* per subscription, the writer (wsConnect): "none", "initial",
                \* "loop" or "closed" (returned, connection closed)
    wsOut,      \* per subscription, the messages written to the connection
    wsRd,       \* per subscription, the reader goroutine: "none", "reading", "ended"
    wsDone,     \* per subscription, the done channel is closed
    wsCancelled,\* per subscription, the request context is cancelled
    wsEnd,      \* per subscription, why the writer returned ("" while it has not)
    query,      \* the query parameters of a subscription request: [interval, interval_ms],
                \* each a sequence of characters (<<>>: absent or empty)
    interval,   \* what parseInterval returned for it, in milliseconds (0: not called yet)
    shutdown    \* the process: "no" (serving), "cancelled" (waitForShutdown has called
                \* cancel), "exited" (srv.Shutdown has returned and main with it)

vars == <<table, events, clock, tickPc, tickSt, tickEv, tickChanged,
          opPc, opKind, opSt, opRes, opBefore, faults, hotTicks, coolStored,
          getRes, wsPc, wsOut, wsRd, wsDone, wsCancelled, wsEnd, query, interval,
          shutdown>>

tickVars == <<tickPc, tickSt, tickEv, tickChanged>>
opVars   == <<opPc, opKind, opSt, opRes, opBefore>>
wsVars   == <<wsPc, wsOut, wsRd, wsDone, wsCancelled, wsEnd>>
reqVars  == <<query, interval>>
\* what the monitoring reads and the subscriptions hold
ioVars   == <<getRes, wsVars, reqVars, shutdown>>
\* the store, the clock and the two writers of the store
coreVars == <<table, events, clock, tickVars, opVars, faults, hotTicks, coolStored>>

-----------------------------------------------------------------------------
(* Bounds of the model *)

\* the clock never passes MaxClock time units
MaxClock == 12
\* a subscription is sent at most MaxOut messages
MaxOut == 2
\* generated values of the interval parameter have at most MaxQueryLen characters
MaxQueryLen == 3
\* events appended plus store calls failed never exceed MaxEvents
MaxEvents == 2

-----------------------------------------------------------------------------
(* Program constants (simulator.go:14-28), on the model's grid *)

\* one second, in time units
Second == 5
\* ambient temperature, tenths of a degree
AmbientC == 250
\* overheat threshold, tenths of a degree
MaxSafeC == 10000
\* tenths of a degree per second when HEAT
RampUpCPerSec == 30
\* tenths of a degree per second when COOL
RampDownCPerSec == 50
\* tenths of a degree per second cooling drift in STANDBY
StandbyCoolPerSec == 5
\* band for "at target", tenths of a degree
SoakToleranceC == 20
\* id of the single furnace_state row
furnaceStateRowID == 1

ModeHeat == "HEAT"
ModeCool == "COOL"
ModeStandby == "STANDBY"

-----------------------------------------------------------------------------
(* Helpers *)

maxFloat(a, b) == IF a >= b THEN a ELSE b

Min(a, b) == IF a <= b THEN a ELSE b

hasString(ss, want) == \E i \in 1..Len(ss) : ss[i] = want

\* number of occurrences of want in ss
CountString(ss, want) == Cardinality({i \in 1..Len(ss) : ss[i] = want})

\* number of events of type typ in log
CountType(log, typ) == Cardinality({i \in 1..Len(log) : log[i].type = typ})

\* The zero value of FurnaceState: what Load returns when there is no row.
\* The zero time.Time (year 1) lies before every clock value: it is -1.
ZeroState ==
    [id |-> 0, mode |-> "", temp |-> 0, target |-> 0, remaining |-> 0,
     errors |-> <<>>, running |-> FALSE, updatedAt |-> -1]

-----------------------------------------------------------------------------
(* State store (state_repo.go) *)

\* StateSQLite.Load: the row with id 1, or the zero state when there is none
Load(tbl) == IF tbl = <<>> THEN ZeroState ELSE tbl[1]

\* A Save that keeps a stored row newer than the one being written
\* (an optimistic check the code does not make).
SaveUnlessNewer(tbl, st, now) ==
    IF tbl # <<>> /\ tbl[1].updatedAt > st.updatedAt
    THEN tbl
    ELSE << [st EXCEPT !.id = furnaceStateRowID] >>

\* StateSQLite.Save: upsert of the whole row under the fixed id; a zero
\* UpdatedAt is replaced by the current time.  The previous content of the
\* table plays no part.
Save(tbl, st, now) ==
    << [st EXCEPT !.id = furnaceStateRowID,
                  !.updatedAt = IF st.updatedAt = -1 THEN now ELSE st.updatedAt] >>

-----------------------------------------------------------------------------
(* Control operations (FurnaceService) *)

\* A Start that always writes the default row, also over an existing one.
StartApplyReset(st, now) ==
    [id |-> 1, mode |-> ModeStandby, temp |-> 250, target |-> 0,
     remaining |-> 0, errors |-> <<>>, running |-> TRUE, updatedAt |-> now]

\* Start, lines 42-57: the row Start saves, from the row it loaded
StartApply(st, now) ==
    IF st.id = 0
    THEN [id |-> 1, mode |-> ModeStandby, temp |-> 250, target |-> 0,
          remaining |-> 0, errors |-> <<>>, running |-> TRUE, updatedAt |-> now]
    ELSE [st EXCEPT !.running = TRUE, !.updatedAt = now]

\* A Stop that forgets to clear the target and the countdown.
StopApplyKeepTarget(st, now) ==
    [st EXCEPT !.id = IF st.id = 0 THEN 1 ELSE st.id,
               !.running = FALSE,
               !.mode = ModeStandby,
               !.updatedAt = now]

\* A Stop that clears the running flag and leaves the mode and its
\* parameters as they were.
StopApplyKeepMode(st, now) ==
    [st EXCEPT !.id = IF st.id = 0 THEN 1 ELSE st.id,
               !.running = FALSE,
               !.updatedAt = now]

\* Stop, lines 79-87: the row Stop saves, from the row it loaded
StopApply(st, now) ==
    [st EXCEPT !.id = IF st.id = 0 THEN 1 ELSE st.id,
               !.running = FALSE,
               !.mode = ModeStandby,
               !.target = 0,
               !.remaining = 0,
               !.updatedAt = now]

\* A validation that also rejects a target equal to ambient.
SetModeValidateStrict(p) ==
    IF p.mode = ModeHeat
    THEN IF ~(p.target > 0 /\ p.duration > 0) THEN "errInvalidHeatCfg"
         ELSE IF p.target <= AmbientC THEN "errBelowAmbient"
         ELSE IF p.target > MaxSafeC THEN "errExceedsMaxSafe"
         ELSE ""
    ELSE IF p.mode \in {ModeCool, ModeStandby} THEN ""
    ELSE "errInvalidMode"

\* A validation that lets HEAT through without a duration.
SetModeValidateNoDuration(p) ==
    IF p.mode = ModeHeat
    THEN IF ~(p.target > 0) THEN "errInvalidHeatCfg"
         ELSE IF p.target < AmbientC THEN "errBelowAmbient"
         ELSE IF p.target > MaxSafeC THEN "errExceedsMaxSafe"
         ELSE ""
    ELSE IF p.mode \in {ModeCool, ModeStandby} THEN ""
    ELSE "errInvalidMode"

\* A validation without the upper limit of the target.
SetModeValidateNoMax(p) ==
    IF p.mode = ModeHeat
    THEN IF ~(p.target > 0 /\ p.duration > 0) THEN "errInvalidHeatCfg"
         ELSE IF p.target < AmbientC THEN "errBelowAmbient"
         ELSE ""
    ELSE IF p.mode \in {ModeCool, ModeStandby} THEN ""
    ELSE "errInvalidMode"

\* SetMode, lines 109-125: "" when the parameters pass validation, else the error
SetModeValidate(p) ==
    IF p.mode = ModeHeat
    THEN IF ~(p.target > 0 /\ p.duration > 0) THEN "errInvalidHeatCfg"
         ELSE IF p.target < AmbientC THEN "errBelowAmbient"
         ELSE IF p.target > MaxSafeC THEN "errExceedsMaxSafe"
         ELSE ""
    ELSE IF p.mode \in {ModeCool, ModeStandby} THEN ""
    ELSE "errInvalidMode"

\* A check that only asks for a row, not for a running device.
SetModeCheckRowOnly(st) ==
    IF st.id = 0 THEN "errNeverStarted" ELSE ""

\* SetMode, lines 131-138: "" when the loaded row allows a mode change
SetModeCheckRunning(st) ==
    IF st.id = 0 THEN "errNeverStarted"
    ELSE IF ~st.running THEN "errStopped"
    ELSE ""

\* SetMode, lines 140-149: the row SetMode saves
SetModeApply(st, p, now) ==
    [st EXCEPT !.mode = p.mode,
               !.target = IF p.mode = ModeHeat THEN p.target ELSE 0,
               !.remaining = IF p.mode = ModeHeat THEN p.duration ELSE 0,
               !.updatedAt = now]

\* the event each control operation appends after its Save
StartEvent == [type |-> "START", meta |-> <<>>]
\* A Stop that logs the event of the other operation.
StopEventAsStart == [type |-> "START", meta |-> <<>>]
StopEvent == [type |-> "STOP", meta |-> <<>>]
SetModeEvent(st) ==
    [type |-> "MODE_CHANGE",
     meta |-> [target_temp_c |-> st.target, duration_sec |-> st.remaining,
               is_running |-> st.running]]

\* A cooling step that is not floored at ambient.
handleCoolingNoFloor(st, elapsed, ratePerSec) ==
    IF st.temp > AmbientC
    THEN [st |-> [st EXCEPT !.temp = st.temp - (ratePerSec * elapsed) \div Second],
          ev |-> <<>>, changed |-> TRUE]
    ELSE [st |-> st, ev |-> <<>>, changed |-> FALSE]

\* A drift that reports a change also when the temperature is at ambient.
driftToAmbientAlwaysChanged(st, elapsed) ==
    [st |-> [st EXCEPT !.temp =
               IF st.temp > AmbientC
               THEN (IF st.temp - (5 * elapsed) \div 5 >= 250
                     THEN st.temp - (5 * elapsed) \div 5 ELSE 250)
               ELSE st.temp],
     ev |-> <<>>, changed |-> TRUE]

-----------------------------------------------------------------------------
(* Monitoring (MonitoringService) *)

\* ambient default of the monitoring baseline, tenths of a degree
defaultAmbientTempC == 250

\* baselineState, lines 42-53: the snapshot for a store with no row
baselineState(now) ==
    [id |-> 1, mode |-> "STANDBY", temp |-> defaultAmbientTempC, target |-> 0,
     remaining |-> 0, errors |-> <<>>, running |-> FALSE, updatedAt |-> now]

\* A GetState that hands out what Load returned, also when there is no row.
GetStateNoBaseline(tbl, now) == Load(tbl)

\* GetState, lines 27-37, when Load succeeds: the state returned
GetState(tbl, now) ==
    IF Load(tbl).id = 0 THEN baselineState(now) ELSE Load(tbl)

-----------------------------------------------------------------------------
(* Simulation step (SimulatorService), on a local copy st of the row.        *)
(* Each operator returns the new st, the events it appends (in order) and    *)
(* the Go function's boolean result.  elapsed is in time units.              *)

\* driftToAmbient, lines 129-135
driftToAmbient(st, elapsed) ==
    IF st.temp > AmbientC
    THEN [st |-> [st EXCEPT !.temp =
                    maxFloat(st.temp - (StandbyCoolPerSec * elapsed) \div Second, AmbientC)],
          ev |-> <<>>, changed |-> TRUE]
    ELSE [st |-> st, ev |-> <<>>, changed |-> FALSE]

\* handleCooling, lines 202-208
handleCooling(st, elapsed, ratePerSec) ==
    IF st.temp > AmbientC
    THEN [st |-> [st EXCEPT !.temp =
                    maxFloat(st.temp - (ratePerSec * elapsed) \div Second, AmbientC)],
          ev |-> <<>>, changed |-> TRUE]
    ELSE [st |-> st, ev |-> <<>>, changed |-> FALSE]

\* Soak times are exact fractions of a second with this denominator.
SoakDen == RampUpCPerSec * Second

\* A ramp that is not clamped at the target.
HeatTempNoClamp(st, elapsed) ==
    IF st.temp < st.target - SoakToleranceC
    THEN st.temp + (RampUpCPerSec * elapsed) \div Second
    ELSE IF st.temp > st.target THEN st.target ELSE st.temp

\* A soak branch that leaves a temperature above the target as it is.
HeatTempKeepsOvershoot(st, elapsed) ==
    IF st.temp < st.target - SoakToleranceC
    THEN LET up == st.temp + (RampUpCPerSec * elapsed) \div Second
         IN  IF up > st.target THEN st.target ELSE up
    ELSE st.temp

\* handleHeat, lines 146-171: the temperature after the ramp / clamp
HeatTemp(st, elapsed) ==
    IF st.temp < st.target - SoakToleranceC
    THEN LET up == st.temp + (RampUpCPerSec * elapsed) \div Second
         IN  IF up > st.target THEN st.target ELSE up
    ELSE IF st.temp > st.target THEN st.target ELSE st.temp

\* handleHeat, lines 142-171: soakElapsed, as a number of 1/SoakDen seconds
HeatSoak(st, elapsed) ==
    IF st.temp < st.target - SoakToleranceC
    THEN LET raw == st.target - st.temp            \* timeToTarget * RampUpCPerSec
             tt  == IF raw < 0 THEN 0 ELSE raw
         IN  IF tt * Second < RampUpCPerSec * elapsed
             THEN RampUpCPerSec * elapsed - tt * Second
             ELSE 0
    ELSE RampUpCPerSec * elapsed

HeatToCoolEvent ==
    [type |-> "MODE_CHANGE", meta |-> [from |-> ModeHeat, to |-> ModeCool]]

\* A countdown that never counts.
HeatDecStalls(soak) == 0

\* A countdown that rounds the soak time up instead of truncating it.
HeatDecRoundUp(soak) == (soak + SoakDen - 1) \div SoakDen

\* handleHeat, line 175: dec := int(soakElapsed), whole seconds of soak
HeatDec(soak) == soak \div SoakDen

\* handleHeat, lines 174-176: the countdown runs in this tick
HeatCounts(st, soak) == st.remaining > 0 /\ soak > 0 /\ HeatDec(soak) >= 1

\* A countdown that ends only when the soak time exceeds what remains.
HeatExpiresLate(st, soak) == HeatCounts(st, soak) /\ st.remaining < HeatDec(soak)

\* handleHeat, lines 177-179: the countdown ends in this tick
HeatExpires(st, soak) == HeatCounts(st, soak) /\ ~(st.remaining > HeatDec(soak))

\* A soak expiry that also clears the target, as SetMode(COOL) does.
handleHeatClearsTarget(st, elapsed) ==
    LET newTemp     == HeatTemp(st, elapsed)
        tempChanged == IF st.temp < st.target - SoakToleranceC
                       THEN newTemp # st.temp
                       ELSE st.temp > st.target
        soak        == HeatSoak(st, elapsed)
    IN  [st |-> [st EXCEPT !.temp = newTemp,
                           !.remaining = IF ~HeatCounts(st, soak) THEN st.remaining
                                         ELSE IF HeatExpires(st, soak) THEN 0
                                         ELSE st.remaining - HeatDec(soak),
                           !.target = IF HeatExpires(st, soak) THEN 0 ELSE st.target,
                           !.mode = IF HeatExpires(st, soak) THEN ModeCool ELSE st.mode],
         ev |-> IF HeatExpires(st, soak) THEN <<HeatToCoolEvent>> ELSE <<>>,
         changed |-> HeatCounts(st, soak) \/ tempChanged]

\* A soak expiry that logs the transition and clears the countdown but leaves
\* the mode as it was.
handleHeatKeepsMode(st, elapsed) ==
    LET newTemp     == HeatTemp(st, elapsed)
        tempChanged == IF st.temp < st.target - SoakToleranceC
                       THEN newTemp # st.temp
                       ELSE st.temp > st.target
        soak        == HeatSoak(st, elapsed)
    IN  [st |-> [st EXCEPT !.temp = newTemp,
                           !.remaining = IF ~HeatCounts(st, soak) THEN st.remaining
                                         ELSE IF HeatExpires(st, soak) THEN 0
                                         ELSE st.remaining - HeatDec(soak)],
         ev |-> IF HeatExpires(st, soak) THEN <<HeatToCoolEvent>> ELSE <<>>,
         changed |-> HeatCounts(st, soak) \/ tempChanged]

\* handleHeat, lines 139-199
handleHeat(st, elapsed) ==
    LET newTemp     == HeatTemp(st, elapsed)
        tempChanged == IF st.temp < st.target - SoakToleranceC
                       THEN newTemp # st.temp
                       ELSE st.temp > st.target
        soak        == HeatSoak(st, elapsed)
    IN  [st |-> [st EXCEPT !.temp = newTemp,
                           !.remaining = IF ~HeatCounts(st, soak) THEN st.remaining
                                         ELSE IF HeatExpires(st, soak) THEN 0
                                         ELSE st.remaining - HeatDec(soak),
                           !.mode = IF HeatExpires(st, soak) THEN ModeCool ELSE st.mode],
         ev |-> IF HeatExpires(st, soak) THEN <<HeatToCoolEvent>> ELSE <<>>,
         changed |-> HeatCounts(st, soak) \/ tempChanged]

OverheatEvent(st) ==
    [type |-> "ERROR",
     meta |-> [temp_c |-> st.temp, max_safe |-> MaxSafeC, mode |-> st.mode,
               isRunning |-> st.running]]

\* A detection that logs the ERROR event only when it sets the flag.
detectAndLogOverheatOnce(st) ==
    IF st.temp > MaxSafeC /\ ~hasString(st.errors, "OVERHEAT")
    THEN LET st2 == [st EXCEPT !.errors = Append(st.errors, "OVERHEAT")]
         IN  [st |-> st2, ev |-> <<OverheatEvent(st2)>>, changed |-> TRUE]
    ELSE [st |-> st, ev |-> <<>>, changed |-> FALSE]

\* detectAndLogOverheat, lines 212-233
detectAndLogOverheat(st) ==
    IF st.temp > MaxSafeC
    THEN LET st2 == IF ~hasString(st.errors, "OVERHEAT")
                    THEN [st EXCEPT !.errors = Append(st.errors, "OVERHEAT")]
                    ELSE st
         IN  [st |-> st2, ev |-> <<OverheatEvent(st2)>>,
              changed |-> ~hasString(st.errors, "OVERHEAT")]
    ELSE [st |-> st, ev |-> <<>>, changed |-> FALSE]

\* Run, lines 93-111: the branch on st.Mode of a running device
RunningStep(st, elapsed) ==
    IF st.mode = ModeHeat THEN handleHeat(st, elapsed)
    ELSE IF st.mode = ModeCool THEN handleCooling(st, elapsed, RampDownCPerSec)
    ELSE IF st.mode = ModeStandby THEN handleCooling(st, elapsed, StandbyCoolPerSec)
    ELSE handleCooling(st, elapsed, StandbyCoolPerSec)

\* Run, lines 76-121: one tick on a loaded row with elapsed >= 1 s; the
\* not-running branch leaves the iteration before the overheat detection
TickStep(st, elapsed) ==
    IF ~st.running
    THEN driftToAmbient(st, elapsed)
    ELSE LET r == RunningStep(st, elapsed)
             o == detectAndLogOverheat(r.st)
         IN  [st |-> o.st, ev |-> r.ev \o o.ev, changed |-> r.changed \/ o.changed]

\* A simulator that would create the row as a running device.
TickBaselineRunning(now) ==
    [id |-> 1, mode |-> ModeStandby, temp |-> AmbientC, target |-> 0,
     remaining |-> 0, errors |-> <<>>, running |-> TRUE, updatedAt |-> now]

\* Run, lines 59-65: the row the simulator saves when it finds no row
TickBaseline(now) ==
    [id |-> 1, mode |-> ModeStandby, temp |-> AmbientC, target |-> 0,
     remaining |-> 0, errors |-> <<>>, running |-> FALSE, updatedAt |-> now]

-----------------------------------------------------------------------------
(* Inputs *)

\* how far the clock may have moved when a tick fires or a call reads the time
ClockSteps == {0, 5, 6}

\* ModeParams offered to SetMode: targets in tenths of a degree
ModeParamsSet ==
    [mode : {ModeHeat}, target : {0, 200, 250, 280, 10000, 15000}, duration : {0, 1}]
    \cup [mode : {ModeCool, ModeStandby, "DRY"}, target : {0}, duration : {0}]

Row(mode, temp, target, remaining, errors, running) ==
    [id |-> 1, mode |-> mode, temp |-> temp, target |-> target,
     remaining |-> remaining, errors |-> errors, running |-> running,
     updatedAt |-> 0]

\* a row last saved age time units before the process started
OldRow(mode, temp, running, age) ==
    [Row(mode, temp, 0, 0, <<>>, running) EXCEPT !.updatedAt = 0 - age]

\* The furnace_state table found at process start: empty, or a row left by
\* an earlier run.
InitTables ==
    { <<>>,
      << Row(ModeHeat, 1090, 1100, 3, <<>>, TRUE) >>,
      << Row(ModeCool, 300, 150, 42, <<>>, FALSE) >>,
      << Row(ModeStandby, 10020, 0, 0, <<"OVERHEAT">>, FALSE) >> }

\* Rows for the simulator running alone: the rows of the simulator's unit
\* tests and rows on the edges of its branches.
SimTables ==
    { << Row(ModeHeat, 1000, 1100, 3, <<>>, TRUE) >>,
      << Row(ModeHeat, 1076, 1100, 5, <<>>, TRUE) >>,
      << Row(ModeHeat, 1080, 1100, 2, <<>>, TRUE) >>,
      << Row(ModeHeat, 1090, 1100, 3, <<>>, TRUE) >>,
      << Row(ModeHeat, 1100, 1100, 1, <<>>, TRUE) >>,
      << Row(ModeHeat, 1100, 1100, 0, <<>>, TRUE) >>,
      << Row(ModeHeat, 1300, 1100, 2, <<>>, TRUE) >>,
      << Row(ModeHeat, 9000, 1100, 2, <<>>, TRUE) >>,
      << Row(ModeHeat, 9990, 10100, 1, <<>>, TRUE) >>,
      << Row(ModeHeat, 1090, 1100, 3, <<>>, FALSE) >>,
      << Row(ModeCool, 10060, 0, 0, <<>>, TRUE) >>,
      << Row(ModeCool, 270, 0, 0, <<>>, TRUE) >>,
      << Row(ModeStandby, 10020, 0, 0, <<>>, TRUE) >>,
      << Row(ModeStandby, 10010, 0, 0, <<"OVERHEAT">>, TRUE) >>,
      << Row(ModeStandby, 10020, 0, 0, <<>>, FALSE) >>,
      << Row(ModeStandby, 250, 0, 0, <<>>, TRUE) >>,
      << Row("DRY", 252, 0, 0, <<>>, TRUE) >>,
      << Row(ModeCool, 1000, 0, 0, <<>>, TRUE) >>,
      << Row(ModeStandby, 200, 0, 0, <<>>, TRUE) >>,
      << OldRow(ModeStandby, 350, FALSE, 50) >>,
      << OldRow(ModeStandby, 260, FALSE, 50) >>,
      << OldRow(ModeCool, 260, TRUE, 300) >>,
      << OldRow(ModeStandby, 260, TRUE, 3000) >> }

\* A running device found above the safe limit with no error code stored yet
\* (the row of the overheat unit test).
HotTables ==
    { << Row(ModeStandby, 10100, 0, 0, <<>>, TRUE) >>,
      << Row(ModeCool, 10100, 0, 0, <<>>, TRUE) >> }

\* the stream subscriptions that may be opened
Subs == {"a", "b"}

\* The table found at start when subscriptions are watched: empty, or a HEAT
\* row at its target whose soak ends with the next tick.
WsTables ==
    { <<>>,
      << Row(ModeHeat, 1100, 1100, 1, <<>>, TRUE) >> }

\* clock steps of the simulator while subscriptions are watched: its 1 s tick
WsSteps == {5}

\* Running HEAT rows with a soak still to do, near enough to its end for the
\* whole cycle to fit below MaxClock: in the soak band, above the target,
\* and ramping (last saved one or two seconds before the process started).
SoakTables ==
    { << Row(ModeHeat, 270, 280, 1, <<>>, TRUE) >>,
      << Row(ModeHeat, 260, 280, 1, <<>>, TRUE) >>,
      << Row(ModeHeat, 280, 280, 1, <<>>, TRUE) >>,
      << Row(ModeHeat, 300, 280, 1, <<>>, TRUE) >>,
      << Row(ModeHeat, 250, 250, 1, <<>>, TRUE) >>,
      << [Row(ModeHeat, 250, 280, 1, <<>>, TRUE) EXCEPT !.updatedAt = 0 - 5] >>,
      << [Row(ModeHeat, 255, 285, 1, <<>>, TRUE) EXCEPT !.updatedAt = 0 - 5] >>,
      << [Row(ModeHeat, 270, 280, 2, <<>>, TRUE) EXCEPT !.updatedAt = 0 - 10] >>,
      << [Row(ModeHeat, 265, 275, 2, <<>>, TRUE) EXCEPT !.updatedAt = 0 - 10] >> }

\* clock steps of a ticker that is on time or late, never early (0: a tick
\* right at process start)
SoakSteps == {0, 5, 6}

\* clock steps for the simulator running alone
SimSteps == {0, 4, 5, 6, 10, 12}

-----------------------------------------------------------------------------
(* Initial state *)

InitRest ==
    /\ events = <<>>
    /\ clock = 0
    /\ tickPc = "wait"
    /\ tickSt = ZeroState
    /\ tickEv = <<>>
    /\ tickChanged = FALSE
    /\ opPc = "idle"
    /\ opKind = "none"
    /\ opSt = ZeroState
    /\ opRes = "none"
    /\ opBefore = <<>>
    /\ faults = 0
    /\ hotTicks = 0
    /\ coolStored = 0
    /\ getRes = [status |-> "none", st |-> ZeroState]
    /\ wsPc = [s \in Subs |-> "none"]
    /\ wsOut = [s \in Subs |-> <<>>]
    /\ wsRd = [s \in Subs |-> "none"]
    /\ wsDone = [s \in Subs |-> FALSE]
    /\ wsCancelled = [s \in Subs |-> FALSE]
    /\ wsEnd = [s \in Subs |-> ""]
    /\ query = [interval |-> <<>>, interval_ms |-> <<>>]
    /\ interval = 0
    /\ shutdown = "no"

Init == table \in InitTables /\ InitRest

InitSim == table \in SimTables /\ InitRest

InitHot == table \in HotTables /\ InitRest

InitWs == table \in WsTables /\ InitRest

InitSoak == table \in SoakTables /\ InitRest

\* events the calls in flight are still going to append
Pending == Len(tickEv) + (IF opPc = "idle" THEN 0 ELSE 1)

\* events the log can still take; a failed store call uses up one place
Room == MaxEvents - Len(events) - faults - Pending

\* a store call fails: the database is unreachable, locked or cancelled.
\* own: the failing call holds a place for an event it will now not append.
Fault(own) ==
    /\ own \/ Room >= 1
    /\ faults' = faults + 1

-----------------------------------------------------------------------------
(* Simulator loop: SimulatorService.Run, one iteration per ticker fire *)

TickIdle ==
    /\ tickPc' = "wait"
    /\ tickSt' = ZeroState
    /\ tickEv' = <<>>
    /\ tickChanged' = FALSE

\* lines 52-121 up to the first write: receive now, Load, compute the step.
\* The store calls of the simulator carry its context: they succeed only
\* while that context is not cancelled.
TickLoad(d) ==
    /\ tickPc = "wait"
    /\ shutdown = "no"
    /\ clock + d <= MaxClock
    /\ clock' = clock + d
    /\ LET now     == clock + d
           st      == Load(table)
           elapsed == now - st.updatedAt
           r       == TickStep(st, elapsed)
       IN  IF st.id = 0
           THEN /\ tickPc' = "save"
                /\ tickSt' = TickBaseline(now)
                /\ tickEv' = <<>>
                /\ tickChanged' = TRUE
                /\ hotTicks' = hotTicks
           ELSE IF elapsed < Second
           THEN TickIdle /\ hotTicks' = hotTicks
           ELSE /\ Len(r.ev) <= Room
                /\ hotTicks' = IF st.running /\ RunningStep(st, elapsed).st.temp > MaxSafeC
                               THEN hotTicks + 1 ELSE hotTicks
                /\ IF r.ev = <<>> /\ ~r.changed
                   THEN TickIdle
                   ELSE /\ tickPc' = IF r.ev # <<>> THEN "append" ELSE "save"
                        /\ tickSt' = IF r.changed
                                     THEN [r.st EXCEPT !.updatedAt = now]
                                     ELSE r.st
                        /\ tickEv' = r.ev
                        /\ tickChanged' = r.changed
    /\ UNCHANGED <<faults, coolStored, table, events, opVars, ioVars>>

\* lines 53-56: Load fails, the iteration is abandoned
TickLoadFail(d) ==
    /\ Fault(FALSE)
    /\ tickPc = "wait"
    /\ clock + d <= MaxClock
    /\ clock' = clock + d
    /\ TickIdle
    /\ UNCHANGED <<hotTicks, coolStored, table, events, opVars, ioVars>>

\* A failed Append that makes the simulator give up the rest of the tick.
TickAppendFailAbandon ==
    /\ Fault(TRUE)
    /\ tickPc = "append"
    /\ TickIdle
    /\ UNCHANGED <<hotTicks, coolStored, table, events, clock, opVars, ioVars>>

\* A failed Save that the simulator tries again.
TickSaveFailRetry ==
    /\ Fault(FALSE)
    /\ tickPc = "save"
    /\ UNCHANGED <<tickVars, hotTicks, coolStored, table, events, clock, opVars, ioVars>>

TickAfterAppend ==
    /\ tickEv' = Tail(tickEv)
    /\ IF Tail(tickEv) # <<>>
       THEN UNCHANGED <<tickPc, tickSt, tickChanged>>
       ELSE IF tickChanged
       THEN /\ tickPc' = "save"
            /\ UNCHANGED <<tickSt, tickChanged>>
       ELSE /\ tickPc' = "wait"
            /\ tickSt' = ZeroState
            /\ tickChanged' = FALSE

\* lines 182-188 and 219-230: eventRepo.Append, result ignored
TickAppend ==
    /\ tickPc = "append"
    /\ shutdown = "no"
    /\ events' = Append(events, Head(tickEv))
    /\ TickAfterAppend
    /\ UNCHANGED <<faults, hotTicks, coolStored, table, clock, opVars, ioVars>>

TickAppendFail ==
    /\ Fault(TRUE)
    /\ tickPc = "append"
    /\ TickAfterAppend
    /\ UNCHANGED <<hotTicks, coolStored, table, events, clock, opVars, ioVars>>

\* lines 66 and 118-121: stateRepo.Save, result ignored
TickSave ==
    /\ tickPc = "save"
    /\ shutdown = "no"
    /\ table' = Save(table, tickSt, clock)
    /\ coolStored' = IF Load(table).mode = ModeHeat /\ tickSt.mode = ModeCool
                     THEN coolStored + 1 ELSE coolStored
    /\ TickIdle
    /\ UNCHANGED <<faults, hotTicks, events, clock, opVars, ioVars>>

TickSaveFail ==
    /\ Fault(FALSE)
    /\ tickPc = "save"
    /\ TickIdle
    /\ UNCHANGED <<hotTicks, coolStored, table, events, clock, opVars, ioVars>>

-----------------------------------------------------------------------------
(* Control calls: FurnaceService.Start / Stop / SetMode, one call at a time *)

OpReturn(res) ==
    /\ opPc' = "idle"
    /\ opSt' = ZeroState
    /\ opRes' = res
    /\ opBefore' = <<>>

OpBegin(kind, d) ==
    /\ opPc = "idle"
    /\ Room >= 1
    /\ clock + d <= MaxClock
    /\ clock' = clock + d
    /\ opKind' = kind

OpProceed(st) ==
    /\ opPc' = "save"
    /\ opSt' = st
    /\ opRes' = "pending"
    /\ opBefore' = table

\* Start, lines 36-57
StartLoad(d) ==
    /\ OpBegin("Start", d)
    /\ OpProceed(StartApply(Load(table), clock + d))
    /\ UNCHANGED <<faults, hotTicks, coolStored, table, events, tickVars, ioVars>>

\* Stop, lines 73-87
StopLoad(d) ==
    /\ OpBegin("Stop", d)
    /\ OpProceed(StopApply(Load(table), clock + d))
    /\ UNCHANGED <<faults, hotTicks, coolStored, table, events, tickVars, ioVars>>

\* SetMode, lines 106-149
SetModeLoad(p, d) ==
    /\ OpBegin("SetMode", d)
    /\ IF SetModeValidate(p) # ""
       THEN OpReturn("errInvalid")
       ELSE IF SetModeCheckRunning(Load(table)) # ""
       THEN OpReturn("errNotRunning")
       ELSE OpProceed(SetModeApply(Load(table), p, clock + d))
    /\ UNCHANGED <<faults, hotTicks, coolStored, table, events, tickVars, ioVars>>

\* Start line 38-41, Stop lines 75-78, SetMode lines 127-130: Load fails
OpLoadFail(kind, d) ==
    /\ Fault(FALSE)
    /\ OpBegin(kind, d)
    /\ kind = "SetMode" => \E p \in ModeParamsSet : SetModeValidate(p) = ""
    /\ OpReturn("errStore")
    /\ UNCHANGED <<hotTicks, coolStored, table, events, tickVars, ioVars>>

\* lines 59, 89, 151: stateRepo.Save
OpSave ==
    /\ opPc = "save"
    /\ table' = Save(table, opSt, clock)
    /\ opPc' = "append"
    /\ UNCHANGED <<faults, hotTicks, coolStored, events, clock, tickVars, opKind, opSt, opRes, opBefore,
                   ioVars>>

\* lines 59-61, 89-91, 151-153: Save fails, the call returns the error
OpSaveFail ==
    /\ Fault(TRUE)
    /\ opPc = "save"
    /\ OpReturn("errStore")
    /\ UNCHANGED <<hotTicks, coolStored, table, events, clock, tickVars, opKind, ioVars>>

OpEvent ==
    IF opKind = "Start" THEN StartEvent
    ELSE IF opKind = "Stop" THEN StopEvent
    ELSE SetModeEvent(opSt)

\* A failed Append after which the call puts back the row it had loaded.
OpAppendFailRollback ==
    /\ Fault(TRUE)
    /\ opPc = "append"
    /\ table' = opBefore
    /\ OpReturn("errStore")
    /\ UNCHANGED <<hotTicks, coolStored, events, clock, tickVars, opKind, ioVars>>

\* lines 63-68, 93-98, 155-165: eventRepo.Append, its result is returned
OpAppend ==
    /\ opPc = "append"
    /\ events' = Append(events, OpEvent)
    /\ OpReturn("ok")
    /\ UNCHANGED <<faults, hotTicks, coolStored, table, clock, tickVars, opKind, ioVars>>

OpAppendFail ==
    /\ Fault(TRUE)
    /\ opPc = "append"
    /\ OpReturn("errStore")
    /\ UNCHANGED <<hotTicks, coolStored, table, events, clock, tickVars, opKind, ioVars>>

-----------------------------------------------------------------------------
(* Monitoring call: MonitoringService.GetState, as served to the GET handler *)

\* GetState, lines 28-36: Load succeeds
GetStateCall ==
    /\ getRes' = [status |-> "ok", st |-> GetState(table, clock)]
    /\ UNCHANGED <<coreVars, wsVars, reqVars, shutdown>>

\* GetState, lines 28-31: Load fails
GetStateFail ==
    /\ getRes' = [status |-> "err", st |-> ZeroState]
    /\ UNCHANGED <<coreVars, wsVars, reqVars, shutdown>>

-----------------------------------------------------------------------------
(* Stream subscription: Handler.wsConnect, its reader and sendState.        *)
(* One message written to the connection is [type, data]: a state envelope  *)
(* {type: "state", data: st} or a ping control frame.                       *)

StateEnvelope(st) == [type |-> "state", data |-> st]

PingFrame == [type |-> "ping", data |-> ZeroState]

\* the writer returns: the deferred conn.Close runs
WsReturn(s, why) ==
    /\ wsPc' = [wsPc EXCEPT ![s] = "closed"]
    /\ wsEnd' = [wsEnd EXCEPT ![s] = why]

\* sendState, lines 138-148, all going well: the message it writes
SendStateMessage == StateEnvelope(GetState(table, clock))

\* A sendState that answers a failed fetch with an error envelope.
WsSendInitialFetchFailEnvelope(s) ==
    /\ wsPc[s] = "initial"
    /\ wsOut' = [wsOut EXCEPT ![s] = Append(@, [type |-> "error", data |-> ZeroState])]
    /\ WsReturn(s, "initialFetch")
    /\ UNCHANGED <<coreVars, reqVars, shutdown, getRes, wsRd, wsDone, wsCancelled>>

\* A writer that starts with a ping instead of the state.
WsSendInitialPing(s) ==
    /\ wsPc[s] = "initial"
    /\ ~wsCancelled[s]
    /\ Len(wsOut[s]) < MaxOut
    /\ wsOut' = [wsOut EXCEPT ![s] = Append(@, PingFrame)]
    /\ wsPc' = [wsPc EXCEPT ![s] = "loop"]
    /\ UNCHANGED <<coreVars, reqVars, shutdown, getRes, wsRd, wsDone, wsCancelled, wsEnd>>

\* lines 37-66: the connection is upgraded, the reader goroutine started and
\* the two tickers created
WsConnect(s) ==
    /\ wsPc[s] = "none"
    /\ wsPc' = [wsPc EXCEPT ![s] = "initial"]
    /\ wsRd' = [wsRd EXCEPT ![s] = "reading"]
    /\ UNCHANGED <<coreVars, reqVars, shutdown, getRes, wsOut, wsDone, wsCancelled, wsEnd>>

\* lines 68-75, sendState returns nil: the initial state is written
WsSendInitial(s) ==
    /\ wsPc[s] = "initial"
    /\ ~wsCancelled[s]
    /\ Len(wsOut[s]) < MaxOut
    /\ wsOut' = [wsOut EXCEPT ![s] = Append(@, SendStateMessage)]
    /\ wsPc' = [wsPc EXCEPT ![s] = "loop"]
    /\ UNCHANGED <<coreVars, reqVars, shutdown, getRes, wsRd, wsDone, wsCancelled, wsEnd>>

\* lines 69-74 with 139-145: GetState fails in the initial sendState
WsSendInitialFetchFail(s) ==
    /\ wsPc[s] = "initial"
    /\ WsReturn(s, "initialFetch")
    /\ UNCHANGED <<coreVars, reqVars, shutdown, getRes, wsOut, wsRd, wsDone, wsCancelled>>

\* lines 69-74 with 146-147: WriteJSON fails in the initial sendState
WsSendInitialWriteFail(s) ==
    /\ wsPc[s] = "initial"
    /\ ~wsCancelled[s]
    /\ WsReturn(s, "initialWrite")
    /\ UNCHANGED <<coreVars, reqVars, shutdown, getRes, wsOut, wsRd, wsDone, wsCancelled>>

\* lines 92-93, sendState returns nil: the state timer fired
WsTickerFire(s) ==
    /\ wsPc[s] = "loop"
    /\ ~wsCancelled[s]
    /\ Len(wsOut[s]) < MaxOut
    /\ wsOut' = [wsOut EXCEPT ![s] = Append(@, SendStateMessage)]
    /\ UNCHANGED <<coreVars, reqVars, shutdown, getRes, wsPc, wsRd, wsDone, wsCancelled, wsEnd>>

\* A later sendState that answers a failed fetch with an error envelope.
WsTickerFetchFailEnvelope(s) ==
    /\ wsPc[s] = "loop"
    /\ wsOut' = [wsOut EXCEPT ![s] = Append(@, [type |-> "error", data |-> ZeroState])]
    /\ WsReturn(s, "fetch")
    /\ UNCHANGED <<coreVars, reqVars, shutdown, getRes, wsRd, wsDone, wsCancelled>>

\* lines 92-99 with 139-145: the state timer fired and GetState fails
WsTickerFetchFail(s) ==
    /\ wsPc[s] = "loop"
    /\ WsReturn(s, "fetch")
    /\ UNCHANGED <<coreVars, reqVars, shutdown, getRes, wsOut, wsRd, wsDone, wsCancelled>>

\* A write failure that tears down every open subscription.
WsTickerWriteFailAll(s) ==
    /\ wsPc[s] = "loop"
    /\ ~wsCancelled[s]
    /\ wsPc' = [t \in Subs |-> IF wsPc[t] \in {"initial", "loop"} THEN "closed" ELSE wsPc[t]]
    /\ wsEnd' = [t \in Subs |-> IF wsPc[t] \in {"initial", "loop"} THEN "write" ELSE wsEnd[t]]
    /\ UNCHANGED <<coreVars, reqVars, shutdown, getRes, wsOut, wsRd, wsDone, wsCancelled>>

\* lines 92-99 with 146-147: the state timer fired and WriteJSON fails
WsTickerWriteFail(s) ==
    /\ wsPc[s] = "loop"
    /\ ~wsCancelled[s]
    /\ WsReturn(s, "write")
    /\ UNCHANGED <<coreVars, reqVars, shutdown, getRes, wsOut, wsRd, wsDone, wsCancelled>>

\* lines 84-86: the heartbeat timer fired, the ping is written
WsPing(s) ==
    /\ wsPc[s] = "loop"
    /\ Len(wsOut[s]) < MaxOut
    /\ wsOut' = [wsOut EXCEPT ![s] = Append(@, PingFrame)]
    /\ UNCHANGED <<coreVars, reqVars, shutdown, getRes, wsPc, wsRd, wsDone, wsCancelled, wsEnd>>

\* lines 84-91: the heartbeat timer fired, writing the ping fails
WsPingFail(s) ==
    /\ wsPc[s] = "loop"
    /\ WsReturn(s, "ping")
    /\ UNCHANGED <<coreVars, reqVars, shutdown, getRes, wsOut, wsRd, wsDone, wsCancelled>>

\* lines 80-81: the writer takes the done case
WsDoneSeen(s) ==
    /\ wsPc[s] = "loop"
    /\ wsDone[s]
    /\ WsReturn(s, "done")
    /\ UNCHANGED <<coreVars, reqVars, shutdown, getRes, wsOut, wsRd, wsDone, wsCancelled>>

\* lines 82-83: the writer takes the cancellation case
WsCancelSeen(s) ==
    /\ wsPc[s] = "loop"
    /\ wsCancelled[s]
    /\ WsReturn(s, "ctx")
    /\ UNCHANGED <<coreVars, reqVars, shutdown, getRes, wsOut, wsRd, wsDone, wsCancelled>>

\* the request context of the subscription is cancelled
WsCancel(s) ==
    /\ wsPc[s] \in {"initial", "loop"}
    /\ ~wsCancelled[s]
    /\ wsCancelled' = [wsCancelled EXCEPT ![s] = TRUE]
    /\ UNCHANGED <<coreVars, reqVars, shutdown, getRes, wsPc, wsOut, wsRd, wsDone, wsEnd>>

\* A reader that ends without closing done.
WsReaderFailSilent(s) ==
    /\ wsRd[s] = "reading"
    /\ wsRd' = [wsRd EXCEPT ![s] = "ended"]
    /\ UNCHANGED <<coreVars, reqVars, shutdown, getRes, wsPc, wsOut, wsDone, wsCancelled, wsEnd>>

\* A reader that closes done on a read failure and goes on reading.
WsReaderFailKeepsReading(s) ==
    /\ wsRd[s] = "reading"
    /\ wsDone' = [wsDone EXCEPT ![s] = TRUE]
    /\ UNCHANGED <<coreVars, reqVars, shutdown, getRes, wsPc, wsOut, wsRd, wsCancelled, wsEnd>>

\* startReader, lines 125-135: ReadMessage fails (the client went away, a
\* protocol error, or the writer closed the connection); the reader closes done
WsReaderFail(s) ==
    /\ wsRd[s] = "reading"
    /\ wsRd' = [wsRd EXCEPT ![s] = "ended"]
    /\ wsDone' = [wsDone EXCEPT ![s] = TRUE]
    /\ UNCHANGED <<coreVars, reqVars, shutdown, getRes, wsPc, wsOut, wsCancelled, wsEnd>>

-----------------------------------------------------------------------------
(* Push interval of a subscription: Handler.parseInterval.  Query values    *)
(* are sequences of characters; durations are in milliseconds.  The values  *)
(* offered hold no '.', 'n', 'u' after a digit, so that every duration Go    *)
(* parses from them is a whole number of milliseconds.                      *)

\* time.Millisecond on the model's grid
Millisecond == 1
\* websockets.go:18, in milliseconds
defaultInterval == 1000
\* websockets.go:19, in milliseconds
maxInterval == 10000
\* websockets.go:20
maxIntervalMilli == 10000

IsDigit(c) == c \in {"0", "1", "2", "3", "4", "5", "6", "7", "8", "9"}

DigitValue(c) ==
    CASE c = "0" -> 0 [] c = "1" -> 1 [] c = "2" -> 2 [] c = "3" -> 3 [] c = "4" -> 4
      [] c = "5" -> 5 [] c = "6" -> 6 [] c = "7" -> 7 [] c = "8" -> 8 [] c = "9" -> 9

\* the digits at the head of s, as a number, and what follows them
RECURSIVE LeadingInt(_, _)
LeadingInt(s, acc) ==
    IF s # <<>> /\ IsDigit(Head(s))
    THEN LeadingInt(Tail(s), 10 * acc + DigitValue(Head(s)))
    ELSE [v |-> acc, rest |-> s]

\* the number of characters at the head of s up to the next digit
RECURSIVE UnitLen(_)
UnitLen(s) == IF s = <<>> \/ IsDigit(Head(s)) THEN 0 ELSE 1 + UnitLen(Tail(s))

\* the unit names of time.ParseDuration that are whole milliseconds
UnitMs(u) ==
    CASE u = <<"m", "s">> -> 1
      [] u = <<"s">> -> 1000
      [] u = <<"m">> -> 60000
      [] u = <<"h">> -> 3600000
      [] OTHER -> 0

ParseError == [ok |-> FALSE, v |-> 0]

\* time.ParseDuration after the sign: one or more groups of digits and a unit
RECURSIVE ParseGroups(_, _)
ParseGroups(s, d) ==
    IF s = <<>> THEN [ok |-> TRUE, v |-> d]
    ELSE IF ~IsDigit(Head(s)) THEN ParseError
    ELSE LET li == LeadingInt(s, 0)
             n  == UnitLen(li.rest)
             u  == SubSeq(li.rest, 1, n)
         IN  IF n = 0 \/ UnitMs(u) = 0 THEN ParseError
             ELSE ParseGroups(SubSeq(li.rest, n + 1, Len(li.rest)), d + li.v * UnitMs(u))

\* time.ParseDuration: [sign] then "0" alone or groups; v in milliseconds
ParseDuration(s) ==
    LET signed == s # <<>> /\ Head(s) \in {"-", "+"}
        body   == IF signed THEN Tail(s) ELSE s
        r      == ParseGroups(body, 0)
    IN  IF body = <<"0">> THEN [ok |-> TRUE, v |-> 0]
        ELSE IF body = <<>> THEN ParseError
        ELSE IF r.ok /\ signed /\ Head(s) = "-" THEN [ok |-> TRUE, v |-> 0 - r.v]
        ELSE r

\* strconv.Atoi: [sign] then one or more decimal digits
Atoi(s) ==
    LET signed == s # <<>> /\ Head(s) \in {"-", "+"}
        body   == IF signed THEN Tail(s) ELSE s
        li     == LeadingInt(body, 0)
    IN  IF body = <<>> \/ li.rest # <<>> THEN ParseError
        ELSE [ok |-> TRUE, v |-> IF signed /\ Head(s) = "-" THEN 0 - li.v ELSE li.v]

\* A resolution in which the millisecond parameter comes first.
parseIntervalMsFirst(q) ==
    LET d == ParseDuration(q.interval)
        v == Atoi(q.interval_ms)
    IN  IF q.interval_ms # <<>> /\ v.ok /\ v.v > 0 /\ v.v <= maxIntervalMilli
        THEN v.v * Millisecond
        ELSE IF q.interval # <<>> /\ d.ok /\ d.v > 0 /\ d.v <= maxInterval
        THEN d.v
        ELSE defaultInterval

\* parseInterval, lines 106-122
parseInterval(q) ==
    LET d == ParseDuration(q.interval)
        v == Atoi(q.interval_ms)
    IN  IF q.interval # <<>> /\ d.ok /\ d.v > 0 /\ d.v <= maxInterval
        THEN d.v
        ELSE IF q.interval_ms # <<>> /\ v.ok /\ v.v > 0 /\ v.v <= maxIntervalMilli
        THEN v.v * Millisecond
        ELSE defaultInterval

\* characters of the generated values of the interval parameter
DurationChars == {"0", "1", "2", "s", "m", "h", "-", "x"}

\* values of the interval parameter: every string of DurationChars up to
\* MaxQueryLen characters, and the values of the handler's unit test
IntervalValues ==
    UNION { [1..k -> DurationChars] : k \in 0..MaxQueryLen }
    \cup { <<"2", "0", "0", "m", "s">>, <<"b", "o", "g", "u", "s">>,
           <<"1", "0", "0", "0", "0", "m", "s">>, <<"1", "0", "0", "0", "1", "m", "s">> }

\* values of the interval_ms parameter: those of the unit test and the edges
IntervalMsValues ==
    { <<>>, <<"1", "5", "0">>, <<"2", "5", "0">>, <<"2", "0", "0", "0", "0">>,
      <<"N", "a", "N">>, <<"1", "0", "0", "0", "0">>, <<"1", "0", "0", "0", "1">>,
      <<"0">>, <<"1">>, <<"-", "5">>, <<"+", "7">>, <<"1", "s">>, <<"9", "9", "9", "9">> }

\* requests: every value of interval with an absent, a valid and a too large
\* interval_ms, and every value of interval_ms with an absent, a valid, a too
\* large and an unparsable interval
Queries ==
    [interval : IntervalValues,
     interval_ms : { <<>>, <<"1", "5", "0">>, <<"2", "0", "0", "0", "0">> }]
    \cup [interval : { <<>>, <<"2", "s">>, <<"2", "0", "s">>, <<"b", "o", "g", "u", "s">> },
          interval_ms : IntervalMsValues]

\* wsConnect, line 38: the interval of a subscription request is resolved
ParseIntervalCall(q) ==
    /\ interval = 0
    /\ query' = q
    /\ interval' = parseInterval(q)
    /\ UNCHANGED <<coreVars, getRes, wsVars, shutdown>>

-----------------------------------------------------------------------------
(* Shutdown: main and waitForShutdown, and the simulator's context *)

\* waitForShutdown, lines 93-101: a termination signal arrives, cancel() is
\* called; srv.Shutdown is then under way
Shutdown ==
    /\ shutdown = "no"
    /\ shutdown' = "cancelled"
    /\ UNCHANGED <<coreVars, getRes, wsVars, reqVars>>

\* A loop that does not look at its context.
SimReturnNever ==
    /\ tickPc = "wait"
    /\ shutdown = "cancelled"
    /\ UNCHANGED vars

\* Run, lines 49-51: the loop takes the ctx.Done case and returns
SimReturn ==
    /\ tickPc = "wait"
    /\ shutdown = "cancelled"
    /\ tickPc' = "returned"
    /\ UNCHANGED <<table, events, clock, tickSt, tickEv, tickChanged, opVars, faults,
                   hotTicks, coolStored, ioVars>>

\* Run, lines 52-56 with the context cancelled: the loop takes the ticker
\* case, Load returns the context's error, the iteration is given up
TickLoadCancelled(d) ==
    /\ tickPc = "wait"
    /\ shutdown = "cancelled"
    /\ clock + d <= MaxClock
    /\ clock' = clock + d
    /\ TickIdle
    /\ UNCHANGED <<faults, hotTicks, coolStored, table, events, opVars, ioVars>>

\* lines 182-188 and 219-230 with the context cancelled: Append returns the
\* context's error, which is ignored
TickAppendCancelled ==
    /\ tickPc = "append"
    /\ shutdown = "cancelled"
    /\ TickAfterAppend
    /\ UNCHANGED <<faults, hotTicks, coolStored, table, events, clock, opVars, ioVars>>

\* lines 66 and 118-121 with the context cancelled: Save returns the
\* context's error, which is ignored
TickSaveCancelled ==
    /\ tickPc = "save"
    /\ shutdown = "cancelled"
    /\ TickIdle
    /\ UNCHANGED <<faults, hotTicks, coolStored, table, events, clock, opVars, ioVars>>

\* waitForShutdown, lines 103-110, and main returning after it: srv.Shutdown
\* returns and the process exits.  http.Server.Shutdown waits for the
\* connections it serves to become idle; a connection upgraded to a
\* websocket has been hijacked from the server, which neither waits for it
\* nor closes it, and nothing cancels its request context.
ProcessExit ==
    /\ shutdown = "cancelled"
    /\ shutdown' = "exited"
    /\ UNCHANGED <<coreVars, getRes, wsVars, reqVars>>

\* the process is running: its goroutines take steps
Alive == shutdown # "exited"

\* the listener is open: requests are accepted (srv.Shutdown closes it)
Serving == shutdown = "no"

-----------------------------------------------------------------------------
(* Specifications *)

\* every store call succeeds
NextReliable ==
    \/ \E d \in ClockSteps : TickLoad(d)
    \/ TickAppend
    \/ TickSave
    \/ \E d \in ClockSteps : StartLoad(d)
    \/ \E d \in ClockSteps : StopLoad(d)
    \/ \E d \in ClockSteps, p \in ModeParamsSet : SetModeLoad(p, d)
    \/ OpSave
    \/ OpAppend

\* a store call fails
NextFail ==
    \/ \E d \in ClockSteps : TickLoadFail(d)
    \/ TickAppendFail
    \/ TickSaveFail
    \/ \E d \in ClockSteps, kind \in {"Start", "Stop", "SetMode"} : OpLoadFail(kind, d)
    \/ OpSaveFail
    \/ OpAppendFail

Next == NextReliable \/ NextFail

\* the program with a store whose calls may fail
Spec == Init /\ [][Next]_vars

\* the program with a store whose calls all succeed
SpecReliable == Init /\ [][NextReliable]_vars

\* the program started on an overheated device, every store call succeeding
SpecHot == InitHot /\ [][NextReliable]_vars

\* the simulator, Start and Stop calls and GetState calls; only the Load of
\* GetState may fail
NextMon ==
    \/ \E d \in ClockSteps : TickLoad(d)
    \/ TickAppend
    \/ TickSave
    \/ \E d \in ClockSteps : StartLoad(d)
    \/ \E d \in ClockSteps : StopLoad(d)
    \/ OpSave
    \/ OpAppend
    \/ GetStateCall
    \/ GetStateFail

SpecMon == Init /\ [][NextMon]_vars

\* the stream subscriptions, with the simulator changing the stored row
NextWs ==
    \/ \E d \in WsSteps : TickLoad(d)
    \/ TickAppend
    \/ TickSave
    \/ \E s \in Subs : WsConnect(s)
    \/ \E s \in Subs : WsSendInitial(s)
    \/ \E s \in Subs : WsSendInitialFetchFail(s)
    \/ \E s \in Subs : WsSendInitialWriteFail(s)
    \/ \E s \in Subs : WsTickerFire(s)
    \/ \E s \in Subs : WsTickerFetchFail(s)
    \/ \E s \in Subs : WsTickerWriteFail(s)
    \/ \E s \in Subs : WsPing(s)
    \/ \E s \in Subs : WsPingFail(s)
    \/ \E s \in Subs : WsDoneSeen(s)
    \/ \E s \in Subs : WsCancelSeen(s)
    \/ \E s \in Subs : WsCancel(s)
    \/ \E s \in Subs : WsReaderFail(s)

SpecWs == InitWs /\ [][NextWs]_vars

\* the initial sendState of wsConnect, lines 68-75, whatever its outcome
WsInitialStep(s) ==
    \/ WsSendInitial(s)
    \/ WsSendInitialFetchFail(s)
    \/ WsSendInitialWriteFail(s)

\* one subscription, with the simulator changing the stored row
NextWsOne ==
    \/ \E d \in WsSteps : TickLoad(d)
    \/ TickAppend
    \/ TickSave
    \/ WsConnect("a")
    \/ WsInitialStep("a")
    \/ WsTickerFire("a")
    \/ WsTickerFetchFail("a")
    \/ WsTickerWriteFail("a")
    \/ WsPing("a")
    \/ WsPingFail("a")
    \/ WsDoneSeen("a")
    \/ WsCancelSeen("a")
    \/ WsCancel("a")
    \/ WsReaderFail("a")

\* one subscription and the simulator, nothing said about scheduling
SpecWsOne == InitWs /\ [][NextWsOne]_vars

\* What the scheduling of the writer goroutine guarantees: the initial
\* sendState is straight-line code that returns, a select whose done case is
\* ready takes it unless it returns by another case first, and likewise for
\* the cancellation case.
WsFairness ==
    /\ WF_vars(WsInitialStep("a"))
    /\ WF_vars(WsDoneSeen("a"))
    /\ WF_vars(WsCancelSeen("a"))

SpecWsFair == InitWs /\ [][NextWsOne]_vars /\ WsFairness

\* wsConnect line 47 with startReader lines 127-133: the writer has returned,
\* its deferred conn.Close() has run, and the reader's ReadMessage fails
WsReaderUnblocked(s) == wsPc[s] = "closed" /\ WsReaderFail(s)

\* Closing the connection makes the pending ReadMessage return an error, and
\* the reader then returns through straight-line code.
WsCloseFairness == WsFairness /\ WF_vars(WsReaderUnblocked("a"))

SpecWsClose == InitWs /\ [][NextWsOne]_vars /\ WsCloseFairness

\* subscription requests, each resolving its push interval
NextInterval == \E q \in Queries : ParseIntervalCall(q)

SpecInterval == InitWs /\ [][NextInterval]_vars

\* the simulator running alone on a stored row, every store call succeeding
NextSim ==
    \/ \E d \in SimSteps : TickLoad(d)
    \/ TickAppend
    \/ TickSave

SpecSim == InitSim /\ [][NextSim]_vars

\* the simulator goroutine and the shutdown of the process
NextSimStop ==
    \/ \E d \in SimSteps : TickLoad(d)
    \/ TickAppend
    \/ TickSave
    \/ Shutdown
    \/ SimReturn
    \/ \E d \in SimSteps : TickLoadCancelled(d)
    \/ TickAppendCancelled
    \/ TickSaveCancelled

\* What the scheduling of the simulator goroutine guarantees: an iteration
\* under way runs to its end, and a select that finds ctx.Done ready again
\* and again takes that case at last (Go chooses among ready cases at random).
SimFairness ==
    /\ WF_vars(TickAppend \/ TickAppendCancelled)
    /\ WF_vars(TickSave \/ TickSaveCancelled)
    /\ SF_vars(SimReturn)

SpecSimStop == InitSim /\ [][NextSimStop]_vars /\ SimFairness

\* one subscription, the simulator and the shutdown of the process up to its
\* exit
NextStop ==
    \/ \E d \in WsSteps : TickLoad(d)
    \/ TickAppend
    \/ TickSave
    \/ Shutdown
    \/ ProcessExit
    \/ SimReturn
    \/ \E d \in WsSteps : TickLoadCancelled(d)
    \/ TickAppendCancelled
    \/ TickSaveCancelled
    \/ Serving /\ WsConnect("a")
    \/ Alive /\ WsInitialStep("a")
    \/ Alive /\ WsTickerFire("a")
    \/ Alive /\ WsTickerFetchFail("a")
    \/ Alive /\ WsTickerWriteFail("a")
    \/ Alive /\ WsPing("a")
    \/ Alive /\ WsPingFail("a")
    \/ Alive /\ WsDoneSeen("a")
    \/ Alive /\ WsCancelSeen("a")
    \/ Alive /\ WsCancel("a")
    \/ Alive /\ WsReaderFail("a")

SpecStop == InitWs /\ [][NextStop]_vars

\* the simulator running alone through the end of a soak, its ticker firing
\* again and again and every store call succeeding
NextSoak ==
    \/ \E d \in SoakSteps : TickLoad(d)
    \/ TickAppend
    \/ TickSave

\* What the ticker and the goroutine scheduler guarantee: the ticker keeps
\* firing and an iteration under way runs to its end.
SoakFairness ==
    /\ WF_vars(\E d \in SoakSteps : TickLoad(d))
    /\ WF_vars(TickAppend)
    /\ WF_vars(TickSave)

SpecSoak == InitSoak /\ [][NextSoak]_vars /\ SoakFairness

\* the simulator on rows whose soak is about to end, with a store whose calls
\* may fail under the simulator, and Start and Stop calls beside it
NextExpiry ==
    \/ \E d \in SoakSteps : TickLoad(d)
    \/ TickAppend
    \/ TickSave
    \/ \E d \in SoakSteps : TickLoadFail(d)
    \/ TickAppendFail
    \/ TickSaveFail
    \/ \E d \in SoakSteps : StartLoad(d)
    \/ \E d \in SoakSteps : StopLoad(d)
    \/ OpSave
    \/ OpAppend

SpecExpiry == InitSoak /\ [][NextExpiry]_vars

\* The store of a fresh installation: empty, or as the program leaves it
\* after the first Start (the baseline row, running), or after that Start, a
\* SetMode(HEAT, 1000.0, 1 s) and 324 ticks of one second (25 + 3 * 324 = 997).
FreshTables ==
    { <<>>,
      << Row(ModeStandby, AmbientC, 0, 0, <<>>, TRUE) >>,
      << Row(ModeHeat, 9970, 10000, 1, <<>>, TRUE) >> }

InitFresh == table \in FreshTables /\ InitRest

\* ModeParams offered to SetMode on a fresh installation
FreshParamsSet ==
    [mode : {ModeHeat}, target : {200, 280, 10000, 10010}, duration : {0, 1, 2}]
    \cup [mode : {ModeCool, ModeStandby, "DRY"}, target : {0}, duration : {0}]

\* ticks and control calls on a fresh installation, store calls may fail
NextFresh ==
    \/ \E d \in ClockSteps : TickLoad(d)
    \/ TickAppend
    \/ TickSave
    \/ \E d \in ClockSteps : StartLoad(d)
    \/ \E d \in ClockSteps : StopLoad(d)
    \/ \E d \in ClockSteps, p \in FreshParamsSet : SetModeLoad(p, d)
    \/ OpSave
    \/ OpAppend
    \/ \E d \in ClockSteps : TickLoadFail(d)
    \/ TickAppendFail
    \/ TickSaveFail
    \/ \E d \in ClockSteps, kind \in {"Start", "Stop", "SetMode"} : OpLoadFail(kind, d)
    \/ OpSaveFail
    \/ OpAppendFail

SpecFresh == InitFresh /\ [][NextFresh]_vars

\* the simulator running alone with an event log whose Append may fail
NextSimLossy ==
    \/ \E d \in SimSteps : TickLoad(d)
    \/ TickAppend
    \/ TickAppendFail
    \/ TickSave

SpecSimLossy == InitSim /\ [][NextSimLossy]_vars

-----------------------------------------------------------------------------
(* Steps of the calls, as seen on a pair of states *)

\* the tick's Save succeeds
TickSaved == tickPc = "save" /\ tickPc' = "wait" /\ faults' = faults

\* the control call's Save succeeds
OpSaved == opPc = "save" /\ opPc' = "append"

\* a control call of this kind passes its checks and goes on to its Save
OpAccepted(kind) == opPc = "idle" /\ opPc' = "save" /\ opKind' = kind

\* a control call of this kind returns nil
OpReturnsOk(kind) == opPc = "append" /\ opKind = kind /\ opPc' = "idle" /\ opRes' = "ok"

\* the stored row is missing or says the device is not running
NotRunningRow == table = <<>> \/ ~table[1].running

-----------------------------------------------------------------------------
(* Claims *)

\* C1: a tick and a control call each Load and later Save the whole row with
\* no lock or version check: whenever a tick's Save succeeds the stored row
\* becomes the tick's local row, whatever a control call stored since the
\* tick's Load, and whenever a control call's Save succeeds the stored row
\* becomes that call's local row, whatever a tick stored since its Load
\* (last write wins).
C1_LastWriteWins ==
    [][ /\ TickSaved => table' = <<tickSt>>
        /\ OpSaved => table' = <<opSt>> ]_vars

\* C1 witness: the last call was a Stop that returned nil, yet the stored row
\* is running in HEAT: a tick that loaded before the Stop saved after it.
C1_Witness ==
    /\ opPc = "idle" /\ opKind = "Stop" /\ opRes = "ok"
    /\ tickPc = "wait"
    /\ events # <<>> /\ events[Len(events)].type = "STOP"
    /\ table # <<>> /\ table[1].running /\ table[1].mode = ModeHeat

\* C2: SetMode on a store with no row, or with a row that is not running,
\* returns an error, does not go on to Save, and leaves row and log as they were.
C2_SetModeNeedsRunning ==
    [][ (opPc = "idle" /\ opKind' = "SetMode" /\ opVars' # opVars /\ NotRunningRow)
        => /\ opPc' = "idle"
           /\ opRes' \in {"errInvalid", "errNotRunning", "errStore"}
           /\ table' = table
           /\ events' = events ]_vars

\* C2 witness: SetMode was refused on a store that never had a row.
C2_Witness ==
    /\ opPc = "idle" /\ opKind = "SetMode" /\ opRes = "errNotRunning"
    /\ table = <<>> /\ events = <<>>

\* HEAT parameters the claim C3 calls valid: target strictly above ambient
ClaimedValid(p) ==
    \/ p.mode \in {ModeCool, ModeStandby}
    \/ p.mode = ModeHeat /\ p.target > AmbientC /\ p.target <= MaxSafeC /\ p.duration > 0

\* HEAT parameters valid once a target equal to ambient is allowed
AmendedValid(p) ==
    \/ p.mode \in {ModeCool, ModeStandby}
    \/ p.mode = ModeHeat /\ p.target >= AmbientC /\ p.target <= MaxSafeC /\ p.duration > 0

\* what C3 says of one SetMode call with parameters p, valid(p) telling
\* which parameters are valid
SetModeDecides(p, valid) ==
    IF valid
    THEN ~NotRunningRow =>
            /\ opPc' = "save"
            /\ opSt'.mode = p.mode
            /\ p.mode = ModeHeat => opSt'.target = p.target /\ opSt'.remaining = p.duration
    ELSE /\ opPc' = "idle"
         /\ opRes' = "errInvalid"
         /\ table' = table
         /\ events' = events

\* C3 as stated: on a running device SetMode(HEAT, t, d) is accepted iff
\* t > ambient, t <= max-safe and d > 0; any other mode than HEAT, COOL,
\* STANDBY is rejected; a rejected call leaves row and log unchanged.
C3_AsStated ==
    [][ (opPc = "idle" /\ opKind' = "SetMode" /\ ~NotRunningRow) =>
           \A p \in ModeParamsSet :
              SetModeLoad(p, clock' - clock) => SetModeDecides(p, ClaimedValid(p)) ]_vars

\* C3 amended: on a running device SetMode(HEAT, t, d) is accepted iff
\* t >= ambient, t <= max-safe and d > 0; any other mode than HEAT, COOL,
\* STANDBY is rejected; a rejected call returns the validation error whatever
\* the store holds and leaves row and log unchanged.
C3_ValidationAmended ==
    [][ (opPc = "idle" /\ opKind' = "SetMode") =>
           \A p \in ModeParamsSet :
              SetModeLoad(p, clock' - clock) => SetModeDecides(p, AmendedValid(p)) ]_vars

\* C3 witness: SetMode(HEAT) with a target equal to ambient was accepted and stored.
C3_Witness ==
    /\ opPc = "idle" /\ opKind = "SetMode" /\ opRes = "ok"
    /\ table # <<>> /\ table[1].mode = ModeHeat /\ table[1].target = AmbientC
    /\ table[1].remaining > 0

\* C4: the row a Stop call saves, whatever row it loaded (none included), has
\* id 1, isRunning false, mode STANDBY, target 0 and remaining 0; and every
\* Stop that returns nil has appended one STOP event of its own.
C4_StopRow ==
    [][ /\ (OpSaved /\ opKind = "Stop") =>
              /\ Len(table') = 1
              /\ table'[1].id = 1
              /\ ~table'[1].running
              /\ table'[1].mode = "STANDBY"
              /\ table'[1].target = 0
              /\ table'[1].remaining = 0
        /\ OpReturnsOk("Stop") =>
              /\ Len(events') = Len(events) + 1
              /\ events'[Len(events')].type = "STOP"
              /\ SubSeq(events', 1, Len(events)) = events ]_vars

\* C4 witness: two Stops in a row on a store that had no row: the row is the
\* stopped row and the log holds two STOP events.
C4_Witness ==
    /\ opPc = "idle" /\ opKind = "Stop" /\ opRes = "ok"
    /\ Len(events) = 2 /\ events[1].type = "STOP" /\ events[2].type = "STOP"
    /\ table # <<>> /\ table[1].id = 1 /\ ~table[1].running
    /\ table[1].mode = "STANDBY" /\ table[1].target = 0 /\ table[1].remaining = 0
    /\ table[1].temp = 0

\* C5: Start on an empty store saves the default row (id 1, STANDBY, 25
\* degrees, target 0, remaining 0, no error codes) with isRunning true; Start
\* on an existing row saves the row it loaded with only isRunning (true) and
\* updatedAt (the call's time) changed.
C5_StartRow ==
    [][ /\ OpAccepted("Start") =>
              IF table = <<>>
              THEN opSt' = [id |-> 1, mode |-> "STANDBY", temp |-> 250, target |-> 0,
                            remaining |-> 0, errors |-> <<>>, running |-> TRUE,
                            updatedAt |-> clock']
              ELSE /\ opSt'.id = table[1].id
                   /\ opSt'.mode = table[1].mode
                   /\ opSt'.temp = table[1].temp
                   /\ opSt'.target = table[1].target
                   /\ opSt'.remaining = table[1].remaining
                   /\ opSt'.errors = table[1].errors
                   /\ opSt'.running
                   /\ opSt'.updatedAt = clock'
        /\ (OpSaved /\ opKind = "Start") => table' = <<opSt>> ]_vars

\* C5 witness: Start has returned nil on the stopped COOL row: the row is
\* running and keeps its mode, temperature, target and countdown.
C5_Witness ==
    /\ opPc = "idle" /\ opKind = "Start" /\ opRes = "ok"
    /\ table # <<>> /\ table[1].running
    /\ table[1].mode = ModeCool /\ table[1].temp = 300
    /\ table[1].target = 150 /\ table[1].remaining = 42

-----------------------------------------------------------------------------
(* Claims about one simulation tick.  On the step that starts a tick the    *)
(* row loaded is table[1], the tick's time is clock' and the row the tick   *)
(* is going to save is tickSt'; the events it is going to append are tickEv'.*)

\* a tick starts
TickStarts == \E d \in SimSteps \cup ClockSteps : TickLoad(d)

\* a tick starts on a stored row at least one second old: it is not skipped
TickRuns == TickStarts /\ table # <<>> /\ clock' - table[1].updatedAt >= Second

\* the row as the tick leaves it: its local row, or the loaded row when the
\* tick found nothing to save or append
TickPost == IF tickPc' = "wait" THEN table[1] ELSE tickSt'

\* whole seconds of soak in a HEAT tick of e time units on row st: the whole
\* elapsed time when the row is within the band below the target, else what is
\* left of the tick after the time (target - temp) / ramp rate
SoakWholeSeconds(st, e) ==
    IF st.temp >= st.target - SoakToleranceC
    THEN e \div Second
    ELSE LET left == RampUpCPerSec * e - (st.target - st.temp) * Second
         IN  IF left <= 0 THEN 0 ELSE left \div (RampUpCPerSec * Second)

\* C6: a running HEAT tick with remaining > 0 whose whole-second soak time is
\* at least remaining sets remaining to 0 and mode to COOL and appends exactly
\* one MODE_CHANGE event, with metadata from HEAT to COOL; no other tick
\* appends a MODE_CHANGE event.
C6_SoakExpiry ==
    [][ /\ TickStarts =>
              IF /\ TickRuns
                 /\ table[1].running /\ table[1].mode = "HEAT"
                 /\ table[1].remaining > 0
                 /\ SoakWholeSeconds(table[1], clock' - table[1].updatedAt)
                       >= table[1].remaining
              THEN /\ tickSt'.remaining = 0
                   /\ tickSt'.mode = "COOL"
                   /\ CountType(tickEv', "MODE_CHANGE") = 1
                   /\ tickEv'[1] = [type |-> "MODE_CHANGE",
                                    meta |-> [from |-> "HEAT", to |-> "COOL"]]
              ELSE CountType(tickEv', "MODE_CHANGE") = 0
        /\ (tickPc = "append" /\ faults' = faults) =>
              events' = Append(events, Head(tickEv)) ]_vars

\* C6 witness: at target with 1 second remaining, a tick 1.2 s after the last
\* update has switched to COOL and is about to append its one MODE_CHANGE event.
C6_Witness ==
    /\ table # <<>> /\ table[1].mode = ModeHeat /\ table[1].temp = 1100
    /\ table[1].target = 1100 /\ table[1].remaining = 1
    /\ clock - table[1].updatedAt = 6
    /\ tickPc = "append" /\ tickSt.mode = ModeCool /\ tickSt.remaining = 0
    /\ tickEv = <<HeatToCoolEvent>>

\* C7: a running HEAT tick that starts more than 2 degrees below the target,
\* with elapsed e >= 1 s, leaves the temperature at min(temp + 3 e, target)
\* and credits max(0, e - (target - temp) / 3) seconds of soak to the countdown.
C7_Ramp ==
    [][ (/\ TickRuns
         /\ table[1].running /\ table[1].mode = "HEAT"
         /\ table[1].temp < table[1].target - 20)
        => LET st == table[1]
               e  == clock' - st.updatedAt
               w  == SoakWholeSeconds(st, e)
           IN  /\ TickPost.temp = Min(st.temp + (30 * e) \div Second, st.target)
               /\ TickPost.remaining =
                     IF st.remaining > 0 /\ w >= 1
                     THEN (IF st.remaining > w THEN st.remaining - w ELSE 0)
                     ELSE st.remaining ]_vars

\* C7 witness: from 100 degrees with target 110, a tick after 2 s is about to
\* save 106 degrees with the countdown untouched.
C7_Witness ==
    /\ table # <<>> /\ table[1].mode = ModeHeat /\ table[1].temp = 1000
    /\ table[1].target = 1100 /\ table[1].remaining = 3
    /\ clock - table[1].updatedAt = 10
    /\ tickPc = "save" /\ tickSt.temp = 1060 /\ tickSt.remaining = 3
    /\ tickSt.mode = ModeHeat

\* C8: in a running HEAT tick the countdown moves by whole seconds of soak
\* only: it drops by exactly floor(soak) when that is at least 1 and less
\* than remaining, it is unchanged when the soak time is under one second,
\* and it is never negative; a tick that starts within 2 degrees of the
\* target (or above it) soaks for its whole elapsed time.
C8_Countdown ==
    [][ (TickRuns /\ table[1].running /\ table[1].mode = "HEAT")
        => LET st == table[1]
               e  == clock' - st.updatedAt
               w  == SoakWholeSeconds(st, e)
           IN  /\ (w >= 1 /\ w < st.remaining) => TickPost.remaining = st.remaining - w
               /\ w < 1 => TickPost.remaining = st.remaining
               /\ TickPost.remaining >= 0
               /\ (st.temp >= st.target - 20 /\ st.remaining > e \div Second)
                     => TickPost.remaining = st.remaining - e \div Second ]_vars

\* C8 witness: at 109 degrees with target 110 and 3 seconds remaining, a tick
\* after 2.4 s is about to save a countdown of 1.
C8_Witness ==
    /\ table # <<>> /\ table[1].mode = ModeHeat /\ table[1].temp = 1090
    /\ table[1].target = 1100 /\ table[1].remaining = 3
    /\ clock - table[1].updatedAt = 12
    /\ tickPc = "save" /\ tickSt.remaining = 1 /\ tickSt.mode = ModeHeat

\* C9: when the simulator runs alone and k ticks on the running device ended
\* above 1000 degrees, no row ever lists OVERHEAT twice, the log holds exactly
\* k ERROR events once the ticks are done, and for k >= 1 the stored row
\* lists OVERHEAT exactly once.
C9_OverheatFlagOnceEventEachTick ==
    /\ CountString(tickSt.errors, "OVERHEAT") <= 1
    /\ table # <<>> => CountString(table[1].errors, "OVERHEAT") <= 1
    /\ tickPc = "wait" =>
          /\ CountType(events, "ERROR") = hotTicks
          /\ hotTicks >= 1 => CountString(table[1].errors, "OVERHEAT") = 1

\* C9 witness: two overheated ticks on a row that had no flag: one OVERHEAT
\* in the stored row, two ERROR events in the log.
C9_Witness ==
    /\ tickPc = "wait" /\ hotTicks = 2
    /\ Len(events) = 2 /\ events[1].type = "ERROR" /\ events[2].type = "ERROR"
    /\ events[1].meta.temp_c > events[2].meta.temp_c
    /\ table # <<>> /\ table[1].errors = <<"OVERHEAT">> /\ table[1].running

\* C10 as stated: every tick that is not skipped and ends above 1000 degrees
\* leaves OVERHEAT in errorCodes and appends an ERROR event, whether the
\* device is running or not.
C10_AsStated ==
    [][ (TickRuns /\ TickPost.temp > MaxSafeC)
        => /\ hasString(TickPost.errors, "OVERHEAT")
           /\ CountType(tickEv', "ERROR") = 1 ]_vars

\* the cooling rate of a tick on row st, tenths of a degree per second: 5
\* degrees in COOL, half a degree in STANDBY and on a stopped device
ClaimedCoolRate(st) == IF st.running /\ st.mode = "COOL" THEN 50 ELSE 5

\* C11: a tick in COOL or STANDBY mode or on a stopped device never takes the
\* temperature below ambient, however long the elapsed time: above 25 degrees
\* the result is max(temp - rate * elapsed, 25) with rate 5 (COOL) or 0.5
\* (STANDBY, stopped); at ambient the temperature is left as it is and the
\* step reports no change.
C11_CoolingFloor ==
    [][ (TickRuns /\ (~table[1].running \/ table[1].mode \in {"COOL", "STANDBY"}))
        => LET st   == table[1]
               e    == clock' - st.updatedAt
               down == st.temp - (ClaimedCoolRate(st) * e) \div 5
           IN  /\ st.temp > 250 =>
                     /\ TickPost.temp = (IF down >= 250 THEN down ELSE 250)
                     /\ TickPost.temp >= 250
               /\ st.temp <= 250 =>
                     /\ TickPost.temp = st.temp
                     /\ tickPc' = "wait" /\ ~tickChanged' ]_vars

\* C11 witness: a COOL tick one degree above ambient after 60 seconds is about
\* to save exactly ambient.
C11_Witness ==
    /\ table # <<>> /\ table[1].mode = ModeCool /\ table[1].running
    /\ table[1].temp = 260 /\ clock - table[1].updatedAt >= 300
    /\ tickPc = "save" /\ tickSt.temp = 250

\* the row fields a step can change differ between rows a and b
FieldsDiffer(a, b) ==
    \/ a.temp # b.temp
    \/ a.remaining # b.remaining
    \/ a.mode # b.mode
    \/ a.errors # b.errors

\* C12: a tick on an existing row makes at most one Save: one, of the stepped
\* row with updatedAt set to the tick's time, when the step changed the
\* temperature, the countdown, the mode or the error codes; none when nothing
\* changed or when less than a second has elapsed, and then the stored row,
\* updatedAt included, stays as it was, so that the next tick sees the whole
\* time since the last update.
C12_OneSavePerTick ==
    [][ /\ (TickStarts /\ table # <<>>) =>
              LET st      == table[1]
                  e       == clock' - st.updatedAt
                  stepped == TickStep(st, e).st
              IN  /\ table' = table
                  /\ IF e >= Second /\ FieldsDiffer(stepped, st)
                     THEN /\ tickChanged' /\ tickPc' \in {"append", "save"}
                          /\ tickSt' = [stepped EXCEPT !.updatedAt = clock']
                     ELSE /\ ~tickChanged'
                          /\ e < Second => (tickPc' = "wait" /\ tickEv' = <<>>)
        /\ tickPc = "append" =>
              /\ table' = table
              /\ tickPc' = (IF Tail(tickEv) # <<>> THEN "append"
                            ELSE IF tickChanged THEN "save" ELSE "wait")
              /\ tickPc' # "wait" => (tickSt' = tickSt /\ tickChanged' = tickChanged)
        /\ tickPc = "save" =>
              /\ tickChanged
              /\ table' = <<tickSt>>
              /\ tickPc' = "wait" ]_vars

\* C12 witness: a tick 0.8 s after the last update was skipped and left the
\* row alone; the next tick, 0.8 s later, steps the row by the whole 1.6 s.
C12_Witness ==
    /\ table # <<>> /\ table[1].mode = ModeHeat /\ table[1].temp = 1000
    /\ table[1].updatedAt = 0 /\ clock = 8
    /\ tickPc = "save" /\ tickSt.temp = 1048 /\ tickSt.updatedAt = 8

\* C13: a store failure in a tick leaves nothing half done: when the Load
\* fails the tick makes no Save and appends no event; when the Save fails the
\* tick leaves the stored row as it is; in both cases the tick ends there,
\* without a retry, the loop goes back to waiting, and whatever tick comes next
\* computes its step from the row stored at that time.
C13_TickFailureAbandons ==
    [][ /\ (\E d \in ClockSteps : TickLoadFail(d)) =>
              /\ table' = table /\ events' = events
              /\ tickPc' = "wait" /\ tickEv' = <<>> /\ ~tickChanged'
        /\ TickSaveFail =>
              /\ table' = table /\ events' = events
              /\ tickPc' = "wait" /\ tickEv' = <<>> /\ ~tickChanged'
        /\ (TickStarts /\ table # <<>> /\ tickPc' # "wait") =>
              LET stepped == TickStep(table[1], clock' - table[1].updatedAt).st
              IN  tickSt' \in {stepped, [stepped EXCEPT !.updatedAt = clock']} ]_vars

\* C13 witness: no control call was ever made and one store call of the
\* simulator has failed; the row is still the one found at start, and the
\* tick two seconds after start counts the whole two seconds as soak.
C13_Witness ==
    /\ opKind = "none" /\ faults = 1 /\ events = <<>>
    /\ table # <<>> /\ table[1].mode = ModeHeat /\ table[1].temp = 1090
    /\ table[1].updatedAt = 0 /\ clock = 10
    /\ tickPc = "save" /\ tickSt.temp = 1090 /\ tickSt.remaining = 1

\* HEAT-to-COOL transitions stored so far when the simulator runs alone: the
\* simulator keeps the target when it switches to COOL
SimTransitions ==
    IF table # <<>> /\ table[1].mode = ModeCool /\ table[1].target # 0 THEN 1 ELSE 0

\* C14: when the Append of a MODE_CHANGE or ERROR event fails in a tick, the
\* tick goes on and saves its new row (COOL with remaining 0, or the OVERHEAT
\* flag), and no later tick appends the lost event: whenever the loop is
\* waiting, the events in the log plus the lost ones are exactly one ERROR per
\* overheated tick and one MODE_CHANGE per stored transition.
C14_LostEventNotResent ==
    [][ /\ TickAppendFail =>
              /\ events' = events /\ table' = table
              /\ tickChanged =>
                    /\ tickPc' \in {"append", "save"}
                    /\ tickSt' = tickSt /\ tickChanged'
        /\ (tickPc = "save" /\ tickPc' = "wait") => table' = <<tickSt>>
        /\ tickPc' = "wait" =>
              Len(events') + faults' = hotTicks' + SimTransitions' ]_vars

\* C14 witness: the MODE_CHANGE event of a soak expiry was lost; the row is
\* stored in COOL with remaining 0, a later tick has cooled it, and the log
\* is still empty.
C14_Witness ==
    /\ faults = 1 /\ events = <<>> /\ tickPc = "wait"
    /\ table # <<>> /\ table[1].mode = ModeCool /\ table[1].remaining = 0
    /\ table[1].target = 1100 /\ table[1].temp < 1100

\* the type of the event a control call of this kind appends
ClaimedEventType(kind) ==
    IF kind = "Start" THEN "START" ELSE IF kind = "Stop" THEN "STOP" ELSE "MODE_CHANGE"

\* C15: a Start, Stop or SetMode call that returns nil has appended exactly
\* one event, of type START, STOP or MODE_CHANGE, and did so after its Save
\* succeeded; a call that fails at validation, at the running check, at Load,
\* at Save or at Append appends no event.
C15_OneEventAfterSave ==
    [][ /\ (opPc = "append" /\ opPc' = "idle" /\ opRes' = "ok") =>
              /\ Len(events') = Len(events) + 1
              /\ SubSeq(events', 1, Len(events)) = events
              /\ events'[Len(events')].type = ClaimedEventType(opKind)
        /\ (opPc # "append" /\ opPc' = "append") =>
              /\ opPc = "save" /\ faults' = faults
              /\ table' = <<opSt>> /\ events' = events
        /\ (opVars' # opVars /\ opRes' # "ok") => events' = events
        /\ (opPc = "idle" /\ opVars' # opVars) => opPc' \in {"idle", "save"} ]_vars

\* C15 witness: a SetMode(COOL) has returned nil on a running row: the row is
\* in COOL and the last event is its MODE_CHANGE.
C15_Witness ==
    /\ opPc = "idle" /\ opKind = "SetMode" /\ opRes = "ok"
    /\ table # <<>> /\ table[1].mode = ModeCool /\ table[1].running
    /\ events # <<>> /\ events[Len(events)].type = "MODE_CHANGE"
    /\ events[Len(events)].meta = [target_temp_c |-> 0, duration_sec |-> 0,
                                    is_running |-> TRUE]

\* C17 as stated: once OVERHEAT is in the stored row it is in every later
\* stored row: no step of a Start, Stop, SetMode or tick, in any interleaving,
\* takes an error code out of the stored row.
C17_AsStated ==
    [][ (table # <<>> /\ hasString(table[1].errors, "OVERHEAT"))
        => (table' # <<>> /\ hasString(table'[1].errors, "OVERHEAT")) ]_vars

\* C16 as stated: while the store is empty, no step other than a control
\* call's writes a row: a tick or a GetState that finds the store empty
\* leaves it empty.
C16_AsStated ==
    [][ (table = <<>> /\ opVars' = opVars) => table' = <<>> ]_vars

\* the row a tick saves on an empty store, as C16 amended describes it
ClaimedTickRow(now) ==
    [id |-> 1, mode |-> "STANDBY", temp |-> 250, target |-> 0, remaining |-> 0,
     errors |-> <<>>, running |-> FALSE, updatedAt |-> now]

\* C16 amended: the row is created by whichever writer first finds the store
\* empty: a Start or Stop call, or a simulation tick, which saves the
\* baseline row (id 1, STANDBY, 25 degrees, target 0, remaining 0, no error
\* codes, not running, updatedAt the tick's time) and appends no event; a
\* GetState on an empty store writes nothing.
C16_RowCreatedByFirstWriter ==
    [][ /\ (TickStarts /\ table = <<>>) =>
              /\ tickPc' = "save" /\ tickEv' = <<>>
              /\ tickSt' = ClaimedTickRow(clock')
              /\ table' = table /\ events' = events
        /\ (table = <<>> /\ table' # <<>>) =>
              \/ /\ tickPc = "save" /\ tickPc' = "wait" /\ opVars' = opVars
                 /\ table' = <<tickSt>>
                 /\ tickSt = ClaimedTickRow(tickSt.updatedAt)
                 /\ events' = events
              \/ /\ opPc = "save" /\ opPc' = "append" /\ opKind \in {"Start", "Stop"}
                 /\ table' = <<opSt>>
        /\ getRes' # getRes => (table' = table /\ events' = events) ]_vars

\* C16 witness: no control call has been made, and the store holds the
\* baseline row a tick saved one second after start.
C16_Witness ==
    /\ opKind = "none" /\ events = <<>> /\ tickPc = "wait"
    /\ table = << ClaimedTickRow(5) >> /\ clock >= 5

\* C18: GetState returns the stored row when there is one and otherwise the
\* baseline (id 1, STANDBY, 25 degrees, target 0, remaining 0, not running,
\* updatedAt now); it never writes, so the store stays empty after a GetState
\* on an empty store; when Load fails it returns the error with a zero state.
C18_GetStateReadsOnly ==
    [][ getRes' # getRes =>
          /\ table' = table /\ events' = events
          /\ getRes'.status = "err" => getRes'.st.id = 0
          /\ getRes'.status = "ok" =>
                IF table = <<>>
                THEN getRes'.st = [id |-> 1, mode |-> "STANDBY", temp |-> 250,
                                   target |-> 0, remaining |-> 0, errors |-> <<>>,
                                   running |-> FALSE, updatedAt |-> clock']
                ELSE getRes'.st = table[1] ]_vars

\* C18 witness: one second after start the store is still empty and GetState
\* has returned the baseline stamped with that time.
C18_Witness ==
    /\ table = <<>> /\ clock = 5
    /\ getRes.status = "ok"
    /\ getRes.st.id = 1 /\ getRes.st.mode = "STANDBY" /\ getRes.st.temp = 250
    /\ ~getRes.st.running /\ getRes.st.updatedAt = 5

\* the state a GetState made now would return, as the claims describe it
ClaimedCurrentState ==
    IF table = <<>>
    THEN [id |-> 1, mode |-> "STANDBY", temp |-> 250, target |-> 0, remaining |-> 0,
          errors |-> <<>>, running |-> FALSE, updatedAt |-> clock]
    ELSE table[1]

C20_InitialFetchFailureCloses ==
    [][ \A s \in Subs :
          /\ WsSendInitialFetchFail(s) =>
                (wsPc'[s] = "closed" /\ wsOut'[s] = <<>>)
          /\ wsEnd[s] = "initialFetch" =>
                (wsPc'[s] = "closed" /\ wsOut'[s] = <<>>) ]_vars

\* C20 witness: the first fetch of one subscription failed: its writer has
\* returned with nothing written and its reader has ended, while the other
\* subscription is in its loop with its initial state sent.
C20_Witness ==
    /\ wsEnd["a"] = "initialFetch" /\ wsPc["a"] = "closed" /\ wsOut["a"] = <<>>
    /\ wsRd["a"] = "ended" /\ wsDone["a"]
    /\ wsPc["b"] = "loop" /\ Len(wsOut["b"]) = 1

\* the reasons for which the claims let a writer return
ClaimedWriterEnds == {"done", "ctx", "ping", "fetch", "write", "initialFetch", "initialWrite"}

WsFetchFailed(s) ==
    /\ wsPc[s] # "closed" /\ wsPc'[s] = "closed"
    /\ wsEnd'[s] \in {"initialFetch", "fetch"}

\* C22 as stated: a push whose fetch fails writes an error envelope to the
\* subscriber.
C22_AsStated ==
    [][ \A s \in Subs :
          WsFetchFailed(s) =>
            /\ Len(wsOut'[s]) = Len(wsOut[s]) + 1
            /\ wsOut'[s][Len(wsOut'[s])].type = "error" ]_vars

\* C22, amended: every data message written to a subscriber is a state
\* envelope carrying a device state with id 1 (the only other frames are
\* pings); no error envelope is ever written: a push whose fetch fails writes
\* nothing and the writer returns, closing the connection.
C22_OnlyStateEnvelopes ==
    [][ \A s \in Subs :
          /\ \A i \in 1..Len(wsOut'[s]) :
                /\ wsOut'[s][i].type \in {"state", "ping"}
                /\ wsOut'[s][i].type = "state" => wsOut'[s][i].data.id = 1
          /\ WsFetchFailed(s) => wsOut'[s] = wsOut[s] ]_vars

\* C22 witness: a later push of a subscription failed at the fetch; the
\* writer has returned and all the subscriber was ever sent is the initial
\* state envelope.
C22_Witness ==
    /\ wsPc["a"] = "closed" /\ wsEnd["a"] = "fetch"
    /\ Len(wsOut["a"]) = 1 /\ wsOut["a"][1].type = "state"

\* what a subscription holds
WsOf(s) == <<wsPc[s], wsOut[s], wsRd[s], wsDone[s], wsCancelled[s], wsEnd[s]>>

\* a step of subscription s: something it holds changes
WsMoves(s) == <<wsPc'[s], wsOut'[s], wsRd'[s], wsDone'[s], wsCancelled'[s], wsEnd'[s]>> # WsOf(s)

\* C23: a step of one subscription (a push, a fetch or write error, a
\* disconnect, the return of its writer) changes nothing of any other
\* subscription, nothing of the simulator and nothing in the store: no row is
\* saved and no event appended by a subscription, and the simulator's next
\* tick is as it was.  Once the writer of one subscription has returned, for
\* whatever reason, a subscription whose writer is in its loop can still be
\* pushed a state.
C23_FailuresIsolated ==
    [][ /\ \A s \in Subs :
              WsMoves(s) =>
                /\ \A t \in Subs \ {s} : ~WsMoves(t)
                /\ UNCHANGED <<table, events, tickVars, clock, faults>>
        /\ \A s \in Subs : \A t \in Subs \ {s} :
              (wsPc[s] = "closed" /\ wsPc[t] = "loop" /\ ~wsCancelled[t]
                 /\ Len(wsOut[t]) < MaxOut)
                => ENABLED WsTickerFire(t) ]_vars

\* C23 witness: one subscription was closed by a failed fetch before anything
\* was sent to it; the other one, still in its loop, has been pushed the HEAT
\* row and then the COOL row the simulator saved at its tick.
C23_Witness ==
    /\ wsPc["a"] = "closed" /\ wsEnd["a"] = "initialFetch" /\ wsOut["a"] = <<>>
    /\ wsPc["b"] = "loop" /\ Len(wsOut["b"]) = 2
    /\ wsOut["b"][1].data.mode = ModeHeat
    /\ wsOut["b"][2].type = "state" /\ wsOut["b"][2].data.mode = ModeCool
    /\ table # <<>> /\ table[1].mode = ModeCool

the2s == <<"2", "s">>
the20s == <<"2", "0", "s">>
theBogus == <<"b", "o", "g", "u", "s">>

\* C24: once the interval of a request is resolved: it is the value of the
\* duration string if that parses to more than 0 and at most 10 s, whatever
\* the millisecond parameter; otherwise the millisecond parameter if that is
\* an integer above 0 and at most 10000; otherwise 1 s; so it is always above
\* 0 and at most 10 s; and interval=2s with interval_ms=150 gives 2 s,
\* interval=bogus with interval_ms=250 gives 250 ms, 20s alone or 20000 ms
\* alone gives 1 s.
C24_IntervalResolution ==
    interval # 0 =>
      LET d == ParseDuration(query.interval)
          v == Atoi(query.interval_ms)
      IN  /\ (d.ok /\ d.v > 0 /\ d.v <= 10000) => interval = d.v
          /\ (~(d.ok /\ d.v > 0 /\ d.v <= 10000) /\ v.ok /\ v.v > 0 /\ v.v <= 10000)
                => interval = v.v
          /\ (~(d.ok /\ d.v > 0 /\ d.v <= 10000) /\ ~(v.ok /\ v.v > 0 /\ v.v <= 10000))
                => interval = 1000
          /\ interval > 0 /\ interval <= 10000
          /\ (query.interval = the2s /\ query.interval_ms = <<"1", "5", "0">>)
                => interval = 2000
          /\ (query.interval = theBogus /\ query.interval_ms = <<"2", "5", "0">>)
                => interval = 250
          /\ (query.interval = the20s /\ query.interval_ms = <<>>) => interval = 1000
          /\ (query.interval = <<>> /\ query.interval_ms = <<"2", "0", "0", "0", "0">>)
                => interval = 1000

\* C24 witness: interval=2s&interval_ms=150 was resolved to 2 s.
C24_Witness ==
    /\ query.interval = the2s /\ query.interval_ms = <<"1", "5", "0">>
    /\ interval = 2000

\* C25: the one simulation loop stops cooperatively: it returns only from
\* its wait, and only once the shutdown cancellation has been signalled; once
\* it has returned it stays returned and the simulator makes no further
\* Load, Save or Append (nothing of the simulator, the row or the log
\* changes); and once the cancellation is signalled the loop eventually
\* returns.
C25_LoopStopsCooperatively ==
    /\ [][ /\ (tickPc # "returned" /\ tickPc' = "returned") =>
                 (tickPc = "wait" /\ shutdown # "no")
           /\ tickPc = "returned" =>
                 (tickVars' = tickVars /\ table' = table /\ events' = events) ]_vars
    /\ (shutdown # "no") ~> (tickPc = "returned")

\* C25 witness: the cancellation came while a tick that had appended its
\* MODE_CHANGE event was about to save; the Save failed with the context's
\* error and the loop has returned, the stored row still in HEAT.
C25_Witness ==
    /\ tickPc = "returned" /\ shutdown = "cancelled"
    /\ Len(events) = 1 /\ events[1].type = "MODE_CHANGE"
    /\ table # <<>> /\ table[1].mode = ModeHeat

\* C26 as stated: shutdown signals the open subscriptions too: by the time
\* the grace period is over and the process exits, the writer of every
\* subscription has seen the cancellation and returned, closing its
\* connection.
C26_AsStated ==
    shutdown = "exited" => \A s \in Subs : wsPc[s] \in {"none", "closed"}

\* the stored row goes from not running (or no row) to running
TurnsOn == NotRunningRow /\ table' # <<>> /\ table'[1].running

\* C27 as stated, in its particular case: a Stop has returned nil, no call
\* is in flight (so no Start has been issued since) and the stored row is not
\* running; then no step makes the stored row running.
C27_AsStated ==
    [][ (opPc = "idle" /\ opKind = "Stop" /\ opRes = "ok" /\ NotRunningRow)
        => ~TurnsOn ]_vars

\* C27, amended: only Start sets isRunning.  A tick goes on with a row that is
\* running exactly if the row it loaded was (the row it creates is not
\* running), SetMode goes on only from a running row and keeps it running,
\* Stop goes on with a row that is not running; each keeps that flag until
\* its Save.  The stored row goes from not running to running only by the
\* Save of a Start, or by the Save of a tick or a SetMode that loaded the row
\* while it was still running and writes it over a Stop's row (last write
\* wins).
C27_OnlyStartSetsRunning ==
    [][ /\ (tickPc = "wait" /\ tickPc' \in {"append", "save"})
              => tickSt'.running = Load(table).running
        /\ (tickPc # "wait" /\ tickPc' \notin {"wait", "returned"})
              => tickSt'.running = tickSt.running
        /\ OpAccepted("SetMode") => (Load(table).running /\ opSt'.running)
        /\ OpAccepted("Stop") => ~opSt'.running
        /\ (opPc = "save" /\ opPc' = "save") => opSt' = opSt
        /\ TurnsOn =>
              \/ OpSaved /\ opKind = "Start"
              \/ OpSaved /\ opKind = "SetMode" /\ opSt.running
              \/ TickSaved /\ tickSt.running ]_vars

\* C27 witness: no store call has failed and no Start was ever issued; the
\* last call, a Stop, returned nil and logged its event, no call is in flight;
\* yet the stored row is running: a tick that had loaded the running row
\* saved it over the Stop's row.
C27_Witness ==
    /\ faults = 0 /\ CountType(events, "START") = 0
    /\ opPc = "idle" /\ opKind = "Stop" /\ opRes = "ok"
    /\ CountType(events, "STOP") = 1
    /\ tickPc = "wait"
    /\ table # <<>> /\ table[1].running /\ table[1].mode = ModeHeat

\* the stored row is a running HEAT row with a soak still to do
Soaking ==
    /\ table # <<>> /\ table[1].running
    /\ table[1].mode = "HEAT" /\ table[1].remaining > 0

\* the stored temperature is within 2 degrees of the target
NearTarget ==
    /\ table # <<>>
    /\ table[1].temp >= table[1].target - 20 /\ table[1].temp <= table[1].target + 20

\* the soak is over: the stored row is in COOL with nothing remaining
SoakOver == table # <<>> /\ table[1].mode = "COOL" /\ table[1].remaining = 0

\* C28: with the ticker firing again and again, every elapsed time at least
\* 1 s or the tick skipped, no control call and no store failure: a running
\* HEAT row with remainingSeconds > 0 leads to a temperature within 2 degrees
\* of the target, that to remainingSeconds 0 in mode COOL, and that to the
\* temperature at ambient (25.0); and every tick that is not skipped on a
\* running HEAT row with remainingSeconds > 0 changes the temperature or the
\* countdown and is saved.
C28_SoakCompletes ==
    /\ Soaking ~> NearTarget
    /\ (Soaking /\ NearTarget) ~> SoakOver
    /\ SoakOver ~> (table[1].temp = 250)
    /\ [][ (TickRuns /\ Soaking) =>
             /\ tickChanged'
             /\ tickPc' \in {"append", "save"}
             /\ \/ tickSt'.temp # table[1].temp
                \/ tickSt'.remaining < table[1].remaining ]_vars

\* C28 witness: the row that was ramping at 25.0 towards 28.0 with one
\* second of soak has gone through its soak (one MODE_CHANGE event) and is now
\* in COOL at ambient, still running.
C28_Witness ==
    /\ table # <<>> /\ table[1].mode = "COOL" /\ table[1].remaining = 0
    /\ table[1].target = 280 /\ table[1].temp = 250 /\ table[1].running
    /\ Len(events) = 1 /\ events[1].type = "MODE_CHANGE"
    /\ tickPc = "wait" /\ clock >= 10

\* a control call is refused or fails at its Load: it returns an error in the
\* step that begins it
OpRefused ==
    /\ opPc = "idle" /\ opPc' = "idle"
    /\ \/ \E d \in ClockSteps, p \in ModeParamsSet : SetModeLoad(p, d)
       \/ \E d \in ClockSteps, kind \in {"Start", "Stop", "SetMode"} : OpLoadFail(kind, d)

\* a control call in flight returns the error of its Save or of its Append
OpFailsInFlight == opPc \in {"save", "append"} /\ opPc' = "idle" /\ opRes' = "errStore"

OpReturnsError == OpRefused \/ OpFailsInFlight

\* C29 as stated: when a control call returns an error and the row stored at
\* that moment is the one this call made, that row is the row the call had
\* loaded: the call has not changed the persisted state.
C29_AsStated ==
    [][ (OpFailsInFlight /\ table = <<opSt>>) => table' = opBefore ]_vars

\* C29, amended: a control call writes the row only by its Save, and the step
\* in which it returns an error changes neither row nor log.  So a call that
\* returns a validation, not-running or Load error, or the error of its Save,
\* has written nothing; a call that returns the error of its event Append has
\* already saved its row: nothing is put back, and no event is logged.
C29_ErrorAfterSaveKeepsRow ==
    [][ /\ OpReturnsError => (table' = table /\ events' = events)
        /\ table' # table => (TickSaved \/ OpSaved)
        /\ OpSaved => (table' = <<opSt>> /\ opRes' = "pending") ]_vars

\* C29 witness: the only store call that failed is the Append of a Stop: the
\* Stop returned the error and logged nothing, and the row that was running
\* in HEAT at 109.0 is stored stopped in STANDBY.
C29_Witness ==
    /\ opPc = "idle" /\ opKind = "Stop" /\ opRes = "errStore"
    /\ faults = 1 /\ events = <<>> /\ tickPc = "wait"
    /\ table # <<>> /\ ~table[1].running /\ table[1].mode = ModeStandby
    /\ table[1].temp \in {1090, 1100} /\ table[1].target = 0

\* C30 as stated: every row that is persisted has id 1 and a temperature of at
\* least ambient, and the row persisted into an empty store, by Start, by a
\* tick or by Stop, is at ambient.
C30_AsStated ==
    [][ (table' # table /\ table' # <<>>) =>
            /\ table'[1].id = 1
            /\ table'[1].temp >= AmbientC
            /\ table = <<>> => table'[1].temp = AmbientC ]_vars

\* a tick has loaded the row and goes on to append or save
TickTakes == tickPc = "wait" /\ tickPc' \in {"append", "save"}

\* a control call has loaded the row and goes on to save
OpTakes == opPc = "idle" /\ opPc' = "save"

\* row new, which a call is going to save, is in COOL or STANDBY and the row
\* the call loaded was not in that mode
EntersIdleMode(new) == new.mode \in {ModeCool, ModeStandby} /\ Load(table).mode # new.mode

Cleared(st) == st.target = 0 /\ st.remaining = 0

\* C31 as stated: a row that a call stores in COOL or STANDBY, having loaded
\* it in another mode, has target 0 and remaining 0, whether the call is a
\* SetMode, a Stop or the tick that ends the soak.
C31_AsStated ==
    [][ /\ (OpTakes /\ EntersIdleMode(opSt')) => Cleared(opSt')
        /\ (TickTakes /\ EntersIdleMode(tickSt')) => Cleared(tickSt') ]_vars

\* C31, amended: SetMode(COOL/STANDBY), Stop and the baselines of Start and
\* of the tick store target 0 and remaining 0.  The tick that ends the soak
\* stores COOL with remaining 0 and the target the HEAT row had: the target
\* is not cleared.  A tick on a COOL or STANDBY row and a Start on an
\* existing row keep mode, target and remaining as loaded.
C31_SoakEndKeepsTarget ==
    [][ /\ (OpTakes /\ EntersIdleMode(opSt')) => Cleared(opSt')
        /\ (TickTakes /\ EntersIdleMode(tickSt')) =>
              \/ table = <<>> /\ tickSt' = TickBaseline(clock')
              \/ /\ table # <<>> /\ table[1].running /\ table[1].mode = ModeHeat
                 /\ table[1].remaining > 0
                 /\ tickSt'.mode = ModeCool /\ tickSt'.remaining = 0
                 /\ tickSt'.target = table[1].target
                 /\ tickEv' = <<HeatToCoolEvent>>
        /\ (TickTakes /\ table # <<>> /\ table[1].mode \in {ModeCool, ModeStandby}) =>
              /\ tickSt'.mode = table[1].mode
              /\ tickSt'.target = table[1].target
              /\ tickSt'.remaining = table[1].remaining
        /\ (OpTakes /\ opKind' = "Start" /\ table # <<>>) =>
              /\ opSt'.mode = table[1].mode
              /\ opSt'.target = table[1].target
              /\ opSt'.remaining = table[1].remaining ]_vars

\* C31 witness: the soak of a HEAT cycle set to 28.0 has ended: the row is
\* stored in COOL with remaining 0 and target 28.0, the transition is logged.
C31_Witness ==
    /\ table # <<>> /\ table[1].mode = ModeCool /\ table[1].running
    /\ table[1].target = 280 /\ table[1].remaining = 0
    /\ Len(events) = 2 /\ events[2].type = "MODE_CHANGE" /\ tickPc = "wait"

\* number of MODE_CHANGE events {from: HEAT, to: COOL} in log
CountHeatToCool(log) == Cardinality({i \in 1..Len(log) : log[i] = HeatToCoolEvent})

\* no Stop has been called so far (the Appends of control calls succeed here)
NoStop == opKind # "Stop" /\ CountType(events, "STOP") = 0

RowsAtHand ==
    (IF table = <<>> THEN {} ELSE {table[1]})
    \cup (IF tickPc = "save" THEN {tickSt} ELSE {})
    \cup (IF opPc = "save" THEN {opSt} ELSE {})

\* C33: on a fresh installation, under every interleaving of control calls
\* and ticks, a row with isRunning false is in STANDBY with target 0 and
\* remaining 0: a stopped device is never stored in HEAT or COOL.
C33_StoppedIsStandby ==
    \A st \in RowsAtHand :
        ~st.running => (st.mode = ModeStandby /\ st.target = 0 /\ st.remaining = 0)

\* C33 witness: a device that was heated to 28.0 has been stopped: the row is
\* stored not running, in STANDBY, with the temperature it had reached.
C33_Witness ==
    /\ table # <<>> /\ ~table[1].running /\ table[1].temp = 280
    /\ table[1].mode = ModeStandby
    /\ CountType(events, "STOP") = 1 /\ opPc = "idle" /\ tickPc = "wait"

\* C34: on a fresh installation a row never has a negative countdown, and
\* its countdown is above 0 exactly when its mode is HEAT: SetMode(HEAT)
\* needs a positive duration, and the tick that brings the countdown to 0
\* stores COOL in the same row, so no row is in HEAT with a countdown of 0.
C34_CountdownIffHeat ==
    \A st \in RowsAtHand :
        /\ st.remaining >= 0
        /\ st.remaining > 0 <=> st.mode = ModeHeat

\* C34 witness: a HEAT cycle of 2 s at 28.0 has soaked for one second: the
\* row is stored in HEAT at its target with 1 s left.
C34_Witness ==
    /\ table # <<>> /\ table[1].mode = ModeHeat /\ table[1].remaining = 1
    /\ table[1].target = 280 /\ table[1].temp = 280
    /\ tickPc = "wait" /\ clock >= 2 * Second

\* C35: on a fresh installation, under any interleaving of Start, Stop,
\* SetMode and ticks, no row has a temperature above max-safe (1000.0): a
\* target above it is rejected and HEAT stops at its target; so no row holds
\* the OVERHEAT code, no tick was overheated and no ERROR event is logged or
\* waiting to be appended.
C35_NeverOverheats ==
    /\ \A st \in RowsAtHand : st.temp <= MaxSafeC /\ ~hasString(st.errors, "OVERHEAT")
    /\ hotTicks = 0
    /\ CountType(events, "ERROR") = 0
    /\ CountType(tickEv, "ERROR") = 0

\* C35 witness: a HEAT cycle with the highest target allowed has brought the
\* device from 997.0 to 1000.0 and its soak has ended: the row is stored at
\* max-safe, in COOL, and the log holds the transition only.
C35_Witness ==
    /\ table # <<>> /\ table[1].temp = MaxSafeC /\ table[1].target = MaxSafeC
    /\ table[1].mode = ModeCool /\ table[1].errors = <<>>
    /\ events = <<HeatToCoolEvent>> /\ tickPc = "wait"

\* C36: a running HEAT tick that is not skipped leaves the temperature at or
\* below the target: the ramp stops at the target, and a temperature above
\* the target when the tick starts is set to the target in that one tick,
\* however far above it was, the whole elapsed time of the tick counting as
\* soak time.
C36_HeatNeverAboveTarget ==
    [][ (TickRuns /\ table[1].running /\ table[1].mode = ModeHeat)
        => LET st == table[1]
               e  == clock' - st.updatedAt
               w  == e \div Second
           IN  /\ TickPost.temp <= st.target
               /\ st.temp <= st.target => TickPost.temp >= st.temp
               /\ st.temp > st.target =>
                     /\ TickPost.temp = st.target
                     /\ tickChanged' /\ tickSt'.updatedAt = clock'
                     /\ TickPost.remaining =
                           IF st.remaining > w THEN st.remaining - w ELSE 0
                     /\ TickPost.mode = IF st.remaining > w THEN ModeHeat ELSE ModeCool ]_vars

\* C36 witness: at 900.0 with target 110.0 and 2 s remaining, a tick after
\* 1.2 s is about to save 110.0 with 1 s remaining, still in HEAT.
C36_Witness ==
    /\ table # <<>> /\ table[1].mode = ModeHeat /\ table[1].temp = 9000
    /\ table[1].target = 1100 /\ table[1].remaining = 2
    /\ clock - table[1].updatedAt = 6
    /\ tickPc = "save" /\ tickSt.temp = 1100 /\ tickSt.remaining = 1
    /\ tickSt.mode = ModeHeat

\* the writer of subscription s, whose reader has been started, takes a step
WsWriterMoves(s) ==
    /\ wsPc[s] # "none"
    /\ wsPc'[s] # wsPc[s] \/ wsOut'[s] # wsOut[s] \/ wsEnd'[s] # wsEnd[s]

\* C37: no task of a subscription is leaked.  Once the writer has ended, for
\* whatever reason, the connection is closed and the reader eventually ends
\* with done closed.  No step of the writer touches done or the reader, done
\* is closed in the one step in which the reader ends, and a reader that has
\* ended stays ended, so done is never closed twice.
C37_NoTaskLeaked ==
    /\ [][ \A s \in Subs :
              /\ WsWriterMoves(s) => (wsDone'[s] = wsDone[s] /\ wsRd'[s] = wsRd[s])
              /\ wsDone'[s] # wsDone[s] =>
                    (~wsDone[s] /\ wsRd[s] = "reading" /\ wsRd'[s] = "ended")
              /\ wsRd[s] = "ended" => (wsRd'[s] = "ended" /\ wsDone[s] /\ wsDone'[s])
              /\ (wsPc[s] # "closed" /\ wsPc'[s] = "closed") =>
                    wsEnd'[s] \in {"initialFetch", "initialWrite", "fetch", "write",
                                   "ping", "ctx", "done"} ]_vars
    /\ \A s \in Subs : (wsPc[s] = "closed") ~> (wsRd[s] = "ended" /\ wsDone[s])

\* C37 witness: the writer ended on a failed ping while the client was still
\* there, and the reader has ended and closed done.
C37_Witness ==
    /\ wsPc["a"] = "closed" /\ wsEnd["a"] = "ping" /\ ~wsCancelled["a"]
    /\ wsRd["a"] = "ended" /\ wsDone["a"]

====
